---- MODULE Spec2Model ----
(***************************************************************************)
(* Model of mgconsole's batched-parallel import (mode::batch_import):      *)
(* the grouper (Batches), FetchBatches, ExecuteSerial,                     *)
(* ExecuteBatchesParallel with its worker tasks, the thread pool, the      *)
(* notifier and Run.                                                       *)
(***************************************************************************)
EXTENDS Integers, Sequences, FiniteSets, TLC

\* ------------------------------------------------------------------------
\* Bounds of the model
\* ------------------------------------------------------------------------
MaxLen == 3          \* longest input stream (statements, empty ones included)
MaxBatchSize == 2    \* largest --batch-size
MaxWorkers == 2      \* largest --workers-number
MaxFaults == 1       \* attempts of batches the database fails during one import
MaxAttempts == 8     \* the same, in the import that is run to follow a long chain of retries
MaxBytes == 5        \* longest byte stream given to the tokenizer
MaxTasks == 2        \* tasks given to the thread pool on its own
MaxTokens == 2       \* tokens passed to the notifier on its own

VARIABLES
  source,            \* the statements the tokenizer yields from stdin, in order
  pos,               \* index of the next statement GetQuery will yield
  batch_size_flag,   \* Run's batch_size argument
  workers_number,    \* Run's workers_number argument
  ctx,               \* BatchExecutionContext: batch_size, max_batches, max_concurrent_executions
  sessions,          \* BatchExecutionContext::sessions, slot -> "ready" | "bad" | "null"
  batches,           \* the Batches value of the current window
  pc,                \* position of the main thread inside Run
  bucket,            \* which of Run's four calls is active: pre, vertex, edge, post
  serial_i,          \* ExecuteSerial: index of the next query of the list
  executed_batches,  \* ExecuteBatchesParallel: the atomic counter
  no,                \* ExecuteBatchesParallel: tokens still to await in this round
  task_queue,        \* ThreadPool::task_queue_
  threads,           \* pool thread -> the task it runs (or Idle)
  ready,             \* Inner::ready_ of the notifier
  faults,            \* failed attempts of batches on a ready session so far
  window,            \* number of FetchBatches calls made so far
  win_start,         \* value of pos when the current window's fetch began
  commits,           \* history: the committed units, each the statement indexes it ran
  dispatched,        \* history: batches for which a task was added to the pool
  committed,         \* history: batches whose ExecuteBatch succeeded
  cl_info,           \* classifier check: a QueryInfo
  cl_bucket,         \* classifier check: the bucket AddQuery chose for cl_info
  fault_budget,      \* how many attempts of batches the database fails during this import
  fetch_query_number, \* FetchBatches: its local query_number, when the loop is run step by step
  stdin_bytes,       \* the whole byte stream given on stdin
  cin,               \* the bytes of std::cin not yet read
  default_text,      \* console::default_text: what followed the last ';' on its line
  yielded,           \* history: every text query::GetQuery returned, in order
  added,             \* history: the texts that passed the caller's empty() test
  cl_phrase,         \* the bytes given to the classifier, and the state they spell
  cl_pos,            \* index of the next byte of cl_phrase.text to give to NextState
  clause_state,      \* the ClauseState of the classifier
  cl_quote,          \* the quote character NextState is given, or NoQuote
  pool_lock_,        \* ThreadPool::pool_lock_: the set of its holders (empty or one thread)
  queue_cv_,         \* ThreadPool::queue_cv_: the pool threads blocked in wait
  next_task,         \* the caller of AddTask: the task it adds next
  ran,               \* history: every run of a task by a pool thread, in order
  mu_,               \* Inner::mu_ of the notifier: the set of its holders
  cv_,               \* Inner::cv_ of the notifier: the threads blocked in wait
  notified,          \* history: the tokens pushed by Notify, in order
  awaited            \* history: the tokens returned by Await, in order

otherVars == <<fault_budget, fetch_query_number, stdin_bytes, cin, default_text, yielded, added,
               cl_phrase, cl_pos, clause_state, cl_quote, pool_lock_, queue_cv_, next_task,
               ran, mu_, cv_, notified, awaited>>

vars == <<source, pos, batch_size_flag, workers_number, ctx, sessions, batches, pc, bucket,
          serial_i, executed_batches, no, task_queue, threads, ready, faults, window,
          win_start, commits, dispatched, committed, cl_info, cl_bucket, otherVars>>

importVars == <<source, pos, batch_size_flag, workers_number, ctx, sessions, batches, pc, bucket,
                serial_i, executed_batches, no, task_queue, threads, ready, faults, window,
                win_start, commits, dispatched, committed>>

classifierVars == <<cl_info, cl_bucket, otherVars>>

\* ------------------------------------------------------------------------
\* query::QueryInfo, query::Query, query::Batch
\* ------------------------------------------------------------------------
\* The value of the tokenizer's quote character outside a quotation: '\\0'.
NoQuote == "NUL"

\* The thread pool and the notifier taken on their own are not being run.
SyncIdle ==
  /\ pool_lock_ = {}
  /\ queue_cv_ = {}
  /\ next_task = 1
  /\ ran = <<>>
  /\ mu_ = {}
  /\ cv_ = {}
  /\ notified = <<>>
  /\ awaited = <<>>

\* No phrase is being classified.
NoPhrase == [text |-> <<>>, accept |-> "NONE"]

QueryInfo ==
  [has_create : BOOLEAN, has_match : BOOLEAN, has_merge : BOOLEAN, has_detach_delete : BOOLEAN,
   has_create_index : BOOLEAN, has_drop_index : BOOLEAN, has_remove : BOOLEAN,
   has_storage_mode : BOOLEAN]

NoInfo ==
  [has_create |-> FALSE, has_match |-> FALSE, has_merge |-> FALSE, has_detach_delete |-> FALSE,
   has_create_index |-> FALSE, has_drop_index |-> FALSE, has_remove |-> FALSE,
   has_storage_mode |-> FALSE]

\* The statement texts of the model; "" is the empty statement.
Texts == {"", "CREATE INDEX", "CREATE", "MATCH CREATE", "RETURN"}

\* The flags the classifier collects for each text of the model.
InfoOf(text) ==
  CASE text = "CREATE INDEX" -> [NoInfo EXCEPT !.has_create_index = TRUE]
    [] text = "CREATE"       -> [NoInfo EXCEPT !.has_create = TRUE]
    [] text = "MATCH CREATE" -> [NoInfo EXCEPT !.has_create = TRUE, !.has_match = TRUE]
    [] OTHER                 -> NoInfo

Query(index, text) == [index |-> index, query |-> text, info |-> InfoOf(text)]

Batch(capacity, index) ==
  [capacity |-> capacity, index |-> index, queries |-> <<>>, is_executed |-> FALSE,
   backoff |-> 1, attempts |-> 0]

\* ------------------------------------------------------------------------
\* struct Batches
\* ------------------------------------------------------------------------
NewBatches(batch_size, max_batches) ==
  [batch_size |-> batch_size, batch_index |-> 1,
   pre_queries |-> <<>>, vertices_batch |-> Batch(batch_size, 0),
   edges_batch |-> Batch(batch_size, 1), vertex_batches |-> <<>>, edge_batches |-> <<>>,
   post_queries |-> <<>>]

\* Mutant: a Batches value is never reported empty.
Empty_Never(bs) == FALSE

\* bool Empty() const { return vertex_batches.empty() && edge_batches.empty(); }
Empty(bs) == bs.vertex_batches = <<>> /\ bs.edge_batches = <<>>

is_pre_query(info) == info.has_create_index

is_vertex_query(info) ==
  /\ info.has_create /\ ~info.has_match /\ ~info.has_merge /\ ~info.has_detach_delete
  /\ ~info.has_create_index /\ ~info.has_drop_index /\ ~info.has_remove

is_edge_query(info) == info.has_match /\ info.has_create

\* Mutant: a query that matches no predicate is taken for a vertex query.
BucketOf_VertexDefault(info) ==
  IF is_pre_query(info) THEN "pre"
  ELSE IF is_edge_query(info) THEN "edge"
  ELSE "vertex"

\* The if-chain of AddQuery: the bucket a query with these flags goes to.
BucketOf(info) ==
  IF is_pre_query(info) THEN "pre"
  ELSE IF is_vertex_query(info) THEN "vertex"
  ELSE IF is_edge_query(info) THEN "edge"
  ELSE "post"

\* Mutant: an open batch that is full still takes the query.
HasRoom_Inclusive(size, batch_size) == size <= batch_size

\* if (vertices_batch.queries.size() < batch_size), and the same test on edges_batch.
HasRoom(size, batch_size) == size < batch_size

AddQuery(bs, query) ==
  LET b == BucketOf(query.info) IN
  CASE b = "pre" -> [bs EXCEPT !.pre_queries = Append(@, query)]
    [] b = "vertex" ->
         IF HasRoom(Len(bs.vertices_batch.queries), bs.batch_size)
         THEN [bs EXCEPT !.vertices_batch.queries = Append(@, query)]
         ELSE [bs EXCEPT !.batch_index = @ + 1,
                         !.vertex_batches = Append(@, bs.vertices_batch),
                         !.vertices_batch =
                            [Batch(bs.batch_size, bs.batch_index + 1) EXCEPT !.queries = <<query>>]]
    [] b = "edge" ->
         IF HasRoom(Len(bs.edges_batch.queries), bs.batch_size)
         THEN [bs EXCEPT !.edges_batch.queries = Append(@, query)]
         ELSE [bs EXCEPT !.batch_index = @ + 1,
                         !.edge_batches = Append(@, bs.edges_batch),
                         !.edges_batch =
                            [Batch(bs.batch_size, bs.batch_index + 1) EXCEPT !.queries = <<query>>]]
    [] OTHER -> [bs EXCEPT !.post_queries = Append(@, query)]

\* Whether Finalize appends an open batch with this many queries.
FinalizeAppends(size, batch_size) == size > 0 /\ size < batch_size

Finalize(bs) ==
  LET v == IF FinalizeAppends(Len(bs.vertices_batch.queries), bs.batch_size)
           THEN Append(bs.vertex_batches, bs.vertices_batch) ELSE bs.vertex_batches
      e == IF FinalizeAppends(Len(bs.edges_batch.queries), bs.batch_size)
           THEN Append(bs.edge_batches, bs.edges_batch) ELSE bs.edge_batches
  IN [bs EXCEPT !.vertex_batches = v, !.edge_batches = e]

\* ------------------------------------------------------------------------
\* BatchExecutionContext and FetchBatches
\* ------------------------------------------------------------------------
\* Mutant: the context is sized one larger than the number of workers asked for.
MakeContext_OneMore(batch_size, workers) ==
  [batch_size |-> batch_size, max_batches |-> workers + 1,
   max_concurrent_executions |-> workers + 1]

\* Run builds the context with workers_number as both the window and the pool size.
MakeContext(batch_size, workers) ==
  [batch_size |-> batch_size, max_batches |-> workers, max_concurrent_executions |-> workers]

\* Mutant: the loop stops one statement past the product.
WindowFull_Late(query_number, c) == query_number >= c.batch_size * c.max_batches + 1

\* The bound check at the head of FetchBatches' loop.
WindowFull(query_number, c) == query_number + 1 >= c.batch_size * c.max_batches

\* query::GetQuery(nullptr, true): the next statement of stdin, or nullopt at the end.
\* The optional is a sequence of length 0 or 1.
GetQuery(src, p) == IF p > Len(src) THEN <<>> ELSE <<Query(p, src[p])>>

\* The loop of FetchBatches; yields the batches and the new read position.
RECURSIVE FetchLoop(_, _, _, _, _)
FetchLoop(src, c, bs, query_number, p) ==
  IF WindowFull(query_number, c) THEN [batches |-> bs, pos |-> p]
  ELSE LET query == GetQuery(src, p) IN
       IF query = <<>> THEN [batches |-> bs, pos |-> p]
       ELSE IF query[1].query = "" THEN FetchLoop(src, c, bs, query_number, p + 1)
       ELSE FetchLoop(src, c, AddQuery(bs, query[1]), query_number + 1, p + 1)

FetchBatches(src, c, p) ==
  LET r == FetchLoop(src, c, NewBatches(c.batch_size, c.max_batches), 0, p)
  IN [batches |-> Finalize(r.batches), pos |-> r.pos]

\* ------------------------------------------------------------------------
\* Initial state: Run has been called, the context is not yet constructed
\* ------------------------------------------------------------------------
Inputs == UNION {[1..n -> Texts] : n \in 0..MaxLen}

Slots == 0..(ctx.max_concurrent_executions - 1)
PoolThreads == 1..ctx.max_concurrent_executions

Idle == [pc |-> "idle", thread_i |-> 0, batch_i |-> 0]

Dead == {"aborted", "crashed"}

Init ==
  /\ source \in Inputs
  /\ pos = 1
  /\ batch_size_flag \in 1..MaxBatchSize
  /\ workers_number \in 1..MaxWorkers
  /\ ctx = MakeContext(batch_size_flag, workers_number)
  /\ sessions = [i \in 0..(ctx.max_concurrent_executions - 1) |-> "null"]
  /\ batches = NewBatches(ctx.batch_size, ctx.max_batches)
  /\ pc = "construct"
  /\ bucket = "pre"
  /\ serial_i = 1
  /\ executed_batches = 0
  /\ no = 0
  /\ task_queue = <<>>
  /\ threads = [t \in 1..ctx.max_concurrent_executions |-> Idle]
  /\ ready = <<>>
  /\ faults = 0
  /\ window = 0
  /\ win_start = 1
  /\ commits = <<>>
  /\ dispatched = {}
  /\ committed = {}
  /\ cl_info = NoInfo
  /\ cl_bucket = "none"
  /\ fault_budget = MaxFaults
  /\ fetch_query_number = 0
  /\ stdin_bytes = <<>>
  /\ cin = <<>>
  /\ default_text = <<>>
  /\ yielded = <<>>
  /\ added = <<>>
  /\ cl_phrase = NoPhrase
  /\ cl_pos = 1
  /\ cl_quote = NoQuote
  /\ SyncIdle
  /\ clause_state = "NONE"

\* ------------------------------------------------------------------------
\* Run: the main thread
\* ------------------------------------------------------------------------
\* Mutant: the constructor does not test the session it got and Run goes on.
OnNullSession_Continue == "fetch"

\* if (!sessions[thread_i].get()) { MG_FAIL("a session uninitialized"); }
OnNullSession == "aborted"

\* BatchExecutionContext's constructor: one MakeBoltSession per slot, in slot order; the
\* first null session is fatal and leaves the later slots without a session.
\* (sessions is only reserve()d, so a build with container assertions also ends here.)
Construct ==
  /\ pc = "construct"
  /\ \/ /\ sessions' = [i \in Slots |-> "ready"]
        /\ pc' = "fetch"
     \/ \E failed \in Slots :
          /\ sessions' = [i \in Slots |-> IF i < failed THEN "ready" ELSE "null"]
          /\ pc' = OnNullSession
  /\ UNCHANGED <<source, pos, batch_size_flag, workers_number, ctx, batches, bucket, serial_i,
                 executed_batches, no, task_queue, threads, ready, faults, window, win_start,
                 commits, dispatched, committed, cl_info, cl_bucket, otherVars>>

\* Mutant: the edge batches are run before the vertex batches.
RunNext_EdgeFirst(b) ==
  CASE b = "pre" -> "edge"
    [] b = "edge" -> "vertex"
    [] b = "vertex" -> "post"
    [] OTHER -> "fetch"

\* Mutant: the post statements are run before the edge batches.
RunNext_PostBeforeEdge(b) ==
  CASE b = "pre" -> "vertex"
    [] b = "vertex" -> "post"
    [] b = "post" -> "edge"
    [] OTHER -> "fetch"

\* The order of the four calls in the body of Run's loop; after post the loop fetches again.
RunNext(b) ==
  CASE b = "pre" -> "vertex"
    [] b = "vertex" -> "edge"
    [] b = "edge" -> "post"
    [] OTHER -> "fetch"

\* The main thread enters the call for bucket b (or goes back to FetchBatches).
Enter(b) ==
  /\ pc' = IF b = "fetch" THEN "fetch" ELSE IF b \in {"pre", "post"} THEN "serial" ELSE "parallel"
  /\ bucket' = IF b = "fetch" THEN "pre" ELSE b
  /\ serial_i' = 1
  /\ executed_batches' = 0
  /\ no' = 0

\* auto batches = FetchBatches(ctx); if (batches.Empty()) break;
Fetch ==
  /\ pc = "fetch"
  /\ LET r == FetchBatches(source, ctx, pos) IN
     /\ batches' = r.batches
     /\ pos' = r.pos
     /\ win_start' = pos
     /\ window' = window + 1
     /\ IF Empty(r.batches)
        THEN /\ pc' = "done"
             /\ UNCHANGED <<bucket, serial_i, executed_batches, no>>
        ELSE Enter("pre")
  /\ UNCHANGED <<source, batch_size_flag, workers_number, ctx, sessions, task_queue, threads,
                 ready, faults, commits, dispatched, committed, cl_info, cl_bucket, otherVars>>

SerialQueries == IF bucket = "pre" THEN batches.pre_queries ELSE batches.post_queries

\* Mutant: the statements of a list are spread over the slots.
SerialSlot_RoundRobin(i) == (i - 1) % workers_number

\* The slot whose session runs the i-th statement of a list: context.sessions[0].
SerialSlot(i) == 0

\* Mutant: after an exception the rest of the list is left out and Run goes on.
OnSerialFailure_Skip == "parallel"

\* Both catch blocks of ExecuteSerial: MG_FAIL.
OnSerialFailure == "aborted"

\* One iteration of ExecuteSerial's loop: ExecuteQuery on sessions[0]; an exception is fatal.
ExecuteSerialStep ==
  /\ pc = "serial"
  /\ serial_i <= Len(SerialQueries)
  /\ \/ /\ sessions[SerialSlot(serial_i)] = "ready"
        /\ commits' = Append(commits, <<SerialQueries[serial_i].index>>)
        /\ serial_i' = serial_i + 1
        /\ UNCHANGED <<pc, faults>>
     \/ /\ sessions[SerialSlot(serial_i)] \in {"ready", "bad"}
        /\ pc' = OnSerialFailure
        /\ UNCHANGED <<commits, serial_i, faults>>
     \/ /\ sessions[SerialSlot(serial_i)] = "null"
        /\ pc' = "crashed"
        /\ UNCHANGED <<commits, serial_i, faults>>
  /\ UNCHANGED <<source, pos, batch_size_flag, workers_number, ctx, sessions, batches, bucket,
                 executed_batches, no, task_queue, threads, ready, window, win_start,
                 dispatched, committed, cl_info, cl_bucket, otherVars>>

\* ExecuteSerial returns once the list is exhausted.
ExecuteSerialReturn ==
  /\ pc = "serial"
  /\ serial_i > Len(SerialQueries)
  /\ Enter(RunNext(bucket))
  /\ UNCHANGED <<source, pos, batch_size_flag, workers_number, ctx, sessions, batches,
                 task_queue, threads, ready, faults, window, win_start, commits, dispatched,
                 committed, cl_info, cl_bucket, otherVars>>

\* ------------------------------------------------------------------------
\* ExecuteBatchesParallel: the scheduler side
\* ------------------------------------------------------------------------
ParallelBatches == IF bucket = "vertex" THEN batches.vertex_batches ELSE batches.edge_batches

\* Mutant: the loop is left only when the counter exceeds the size.
AllExecuted_Strict(executed, size) == executed > size

\* Mutant: the loop is left one batch early.
AllExecuted_OffByOne(executed, size) == executed + 1 >= size

\* if (executed_batches.load() >= batches.size()) break;
AllExecuted(executed, size) == executed >= size

\* Mutant: the scan skips no batch.
Skipped_Never(batch) == FALSE

\* if (batch.is_executed) continue;
Skipped(batch) == batch.is_executed

\* Mutant: every task of a round is bound to slot 0.
SlotFor_Zero(used_threads) == 0

\* auto thread_i = used_threads; used_threads++;
SlotFor(used_threads) == used_threads

\* The dispatch loop of one round: scans the batches from batch_i on and yields the tasks it
\* adds, each [thread_i, batch_i]. (batch_i counts from 1 here, from 0 in the source.)
RECURSIVE ScheduleRound(_, _, _, _)
ScheduleRound(bv, batch_i, used_threads, max_concurrent_executions) ==
  IF batch_i > Len(bv) THEN <<>>
  ELSE IF used_threads >= max_concurrent_executions THEN <<>>
  ELSE IF Skipped(bv[batch_i])
       THEN ScheduleRound(bv, batch_i + 1, used_threads, max_concurrent_executions)
       ELSE <<[thread_i |-> SlotFor(used_threads), batch_i |-> batch_i]>> \o
            ScheduleRound(bv, batch_i + 1, used_threads + 1, max_concurrent_executions)

BatchId(w, b, i) == [window |-> w, bucket |-> b, batch_i |-> i]

\* Mutant: the scheduler waits for no token before its next pass.
TokensToAwait_None(used_threads) == 0

\* int64_t no = used_threads;
TokensToAwait(used_threads) == used_threads

\* One pass of the outer loop: every task of the round is added to the pool, then the
\* scheduler waits for used_threads tokens.
DispatchRound ==
  /\ pc = "parallel"
  /\ ParallelBatches # <<>>
  /\ ~AllExecuted(executed_batches, Len(ParallelBatches))
  /\ LET tasks == ScheduleRound(ParallelBatches, 1, 0, ctx.max_concurrent_executions) IN
     /\ task_queue' = task_queue \o tasks
     /\ no' = TokensToAwait(Len(tasks))
     /\ dispatched' = dispatched \cup {BatchId(window, bucket, tasks[k].batch_i) : k \in 1..Len(tasks)}
     /\ pc' = IF TokensToAwait(Len(tasks)) > 0 THEN "await" ELSE "parallel"
  /\ UNCHANGED <<source, pos, batch_size_flag, workers_number, ctx, sessions, batches, bucket,
                 serial_i, executed_batches, threads, ready, faults, window, win_start, commits,
                 committed, cl_info, cl_bucket, otherVars>>

\* execution_context.notifier.Await(); --no;
Await ==
  /\ pc = "await"
  /\ no > 0
  /\ ready # <<>>
  /\ ready' = SubSeq(ready, 1, Len(ready) - 1)
  /\ no' = no - 1
  /\ pc' = IF no - 1 > 0 THEN "await" ELSE "parallel"
  /\ UNCHANGED <<source, pos, batch_size_flag, workers_number, ctx, sessions, batches, bucket,
                 serial_i, executed_batches, task_queue, threads, faults, window, win_start,
                 commits, dispatched, committed, cl_info, cl_bucket, otherVars>>

\* ExecuteBatchesParallel returns: the vector is empty or the counter has reached its size.
ExecuteBatchesParallelReturn ==
  /\ pc = "parallel"
  /\ \/ ParallelBatches = <<>>
     \/ AllExecuted(executed_batches, Len(ParallelBatches))
  /\ Enter(RunNext(bucket))
  /\ UNCHANGED <<source, pos, batch_size_flag, workers_number, ctx, sessions, batches,
                 task_queue, threads, ready, faults, window, win_start, commits, dispatched,
                 committed, cl_info, cl_bucket, otherVars>>

\* ------------------------------------------------------------------------
\* The pool threads and the worker task
\* ------------------------------------------------------------------------
\* ThreadLoop: an idle pool thread pops the front task and starts to run it
\* (the backoff sleep changes no state).
PopTask(t) ==
  /\ pc \notin Dead
  /\ threads[t].pc = "idle"
  /\ task_queue # <<>>
  /\ threads' = [threads EXCEPT ![t] = [pc |-> "exec", thread_i |-> Head(task_queue).thread_i,
                                        batch_i |-> Head(task_queue).batch_i]]
  /\ task_queue' = Tail(task_queue)
  /\ UNCHANGED <<source, pos, batch_size_flag, workers_number, ctx, sessions, batches, pc, bucket,
                 serial_i, executed_batches, no, ready, faults, window, win_start, commits,
                 dispatched, committed, cl_info, cl_bucket, otherVars>>

\* Mutant: the backoff is doubled and never set back.
NextBackoff_NoReset(backoff) == backoff * 2

\* Mutant: a doubled value over the ceiling is clamped to the ceiling.
NextBackoff_Clamp(backoff) == IF backoff * 2 > 100 THEN 100 ELSE backoff * 2

\* batch.backoff *= 2; if (batch.backoff > 100) batch.backoff = 1;
NextBackoff(backoff) == IF backoff * 2 > 100 THEN 1 ELSE backoff * 2

\* The batch after the task's success branch.
BatchSucceeded(b) == [b EXCEPT !.is_executed = TRUE]

\* Mutant: after its third failure a batch is given up and marked as done.
BatchFailed_GiveUp(b) ==
  [b EXCEPT !.backoff = NextBackoff(@), !.attempts = @ + 1, !.is_executed = (b.attempts >= 2)]

\* The batch after the task's failure branch.
BatchFailed(b) == [b EXCEPT !.backoff = NextBackoff(@), !.attempts = @ + 1]

\* The counter after the task's success branch.
CountExecuted(executed) == executed + 1

SetBatch(bs, b, i, nb) ==
  IF b = "vertex" THEN [bs EXCEPT !.vertex_batches[i] = nb] ELSE [bs EXCEPT !.edge_batches[i] = nb]

QueryIndexes(qs) == [k \in 1..Len(qs) |-> qs[k].index]

\* Mutant: the fill notifier hands the token over twice.
Notify_Twice(token) == ready' = Append(Append(ready, token), token)

\* Inner::Notify through the promise's fill notifier.
Notify(token) == ready' = Append(ready, token)

\* The task up to promise->Fill: ExecuteBatch on the slot's session, then either branch.
\* A batch run on a bad session fails; a run on a null session ends the process.
ExecuteBatch(t) ==
  /\ pc \notin Dead
  /\ threads[t].pc = "exec"
  /\ LET slot == threads[t].thread_i
         i == threads[t].batch_i
         b == ParallelBatches[i]
         ok == /\ batches' = SetBatch(batches, bucket, i, BatchSucceeded(b))
               /\ executed_batches' = CountExecuted(executed_batches)
               /\ commits' = Append(commits, QueryIndexes(b.queries))
               /\ committed' = committed \cup {BatchId(window, bucket, i)}
               /\ Notify(i)
               /\ threads' = [threads EXCEPT ![t].pc = "status"]
               /\ UNCHANGED <<pc>>
         failed == /\ batches' = SetBatch(batches, bucket, i, BatchFailed(b))
                   /\ Notify(i)
                   /\ threads' = [threads EXCEPT ![t].pc = "status"]
                   /\ UNCHANGED <<executed_batches, commits, committed, pc>>
     IN \/ /\ sessions[slot] = "ready"
           /\ ok
           /\ UNCHANGED <<sessions, faults>>
        \/ /\ sessions[slot] = "ready"
           /\ faults < fault_budget
           /\ faults' = faults + 1
           /\ failed
           /\ \E s \in {"ready", "bad"} : sessions' = [sessions EXCEPT ![slot] = s]
        \/ /\ sessions[slot] = "bad"
           /\ failed
           /\ UNCHANGED <<sessions, faults>>
        \/ /\ sessions[slot] = "null"
           /\ pc' = "crashed"
           /\ UNCHANGED <<batches, executed_batches, commits, committed, ready, threads,
                          sessions, faults>>
  /\ UNCHANGED <<source, pos, batch_size_flag, workers_number, ctx, bucket, serial_i, no,
                 task_queue, window, win_start, dispatched, cl_info, cl_bucket, otherVars>>

\* Who else is inside a call on the session of this slot right now.
OtherUsers(t, slot) ==
  {u \in PoolThreads \ {t} : threads[u].pc = "exec" /\ threads[u].thread_i = slot}

MainUsesSession(slot) ==
  pc = "serial" /\ serial_i <= Len(SerialQueries) /\ slot = SerialSlot(serial_i)

\* The tail of the task, after promise->Fill: read the session's status and replace a bad
\* session; MakeBoltSession yields a null session when the connect fails. Replacing the
\* session destroys the old one under whoever else is using it. Reading the status of a
\* null session either reports it bad or ends the process, as the client library decides.
CheckSession(t) ==
  /\ pc \notin Dead
  /\ threads[t].pc = "status"
  /\ LET slot == threads[t].thread_i IN
     \/ /\ sessions[slot] = "ready"
        /\ UNCHANGED <<sessions, faults, pc>>
     \/ /\ sessions[slot] \in {"bad", "null"}
        /\ \E s \in {"ready", "null"} : sessions' = [sessions EXCEPT ![slot] = s]
        /\ \/ UNCHANGED pc
           \/ /\ (OtherUsers(t, slot) # {} \/ MainUsesSession(slot))
              /\ pc' = "crashed"
        /\ UNCHANGED faults
     \/ /\ sessions[slot] = "null"
        /\ pc' = "crashed"
        /\ UNCHANGED <<sessions, faults>>
  /\ threads' = [threads EXCEPT ![t] = Idle]
  /\ UNCHANGED <<source, pos, batch_size_flag, workers_number, ctx, batches, bucket, serial_i,
                 executed_batches, no, task_queue, ready, window, win_start, commits,
                 dispatched, committed, cl_info, cl_bucket, otherVars>>

\* ------------------------------------------------------------------------
\* The import as a whole
\* ------------------------------------------------------------------------
Next ==
  \/ Construct
  \/ Fetch
  \/ ExecuteSerialStep
  \/ ExecuteSerialReturn
  \/ DispatchRound
  \/ Await
  \/ ExecuteBatchesParallelReturn
  \/ \E t \in PoolThreads : PopTask(t)
  \/ \E t \in PoolThreads : ExecuteBatch(t)
  \/ \E t \in PoolThreads : CheckSession(t)

Spec == Init /\ [][Next]_vars

\* Scheduling of the threads: the main thread and every pool thread keep running.
MainThread ==
  \/ Construct
  \/ Fetch
  \/ ExecuteSerialStep
  \/ ExecuteSerialReturn
  \/ DispatchRound
  \/ Await
  \/ ExecuteBatchesParallelReturn

PoolThread(t) == t \in PoolThreads /\ (PopTask(t) \/ ExecuteBatch(t) \/ CheckSession(t))

FairSpec == Spec /\ WF_vars(MainThread) /\ \A t \in 1..MaxWorkers : WF_vars(PoolThread(t))

\* ------------------------------------------------------------------------
\* The import of a short input against a database that fails many attempts
\* ------------------------------------------------------------------------
InitRetry ==
  /\ source \in {src \in Inputs : Len(src) = 2}
  /\ pos = 1
  /\ batch_size_flag = MaxBatchSize
  /\ workers_number = MaxWorkers
  /\ ctx = MakeContext(batch_size_flag, workers_number)
  /\ sessions = [i \in 0..(ctx.max_concurrent_executions - 1) |-> "null"]
  /\ batches = NewBatches(ctx.batch_size, ctx.max_batches)
  /\ pc = "construct"
  /\ bucket = "pre"
  /\ serial_i = 1
  /\ executed_batches = 0
  /\ no = 0
  /\ task_queue = <<>>
  /\ threads = [t \in 1..ctx.max_concurrent_executions |-> Idle]
  /\ ready = <<>>
  /\ faults = 0
  /\ window = 0
  /\ win_start = 1
  /\ commits = <<>>
  /\ dispatched = {}
  /\ committed = {}
  /\ cl_info = NoInfo
  /\ cl_bucket = "none"
  /\ fault_budget = MaxAttempts
  /\ fetch_query_number = 0
  /\ stdin_bytes = <<>>
  /\ cin = <<>>
  /\ default_text = <<>>
  /\ yielded = <<>>
  /\ added = <<>>
  /\ cl_phrase = NoPhrase
  /\ cl_pos = 1
  /\ cl_quote = NoQuote
  /\ SyncIdle
  /\ clause_state = "NONE"

RetrySpec == InitRetry /\ [][Next]_vars

\* ------------------------------------------------------------------------
\* FetchBatches with its loop run one iteration at a time
\* ------------------------------------------------------------------------
InitBatches ==
  /\ source \in Inputs
  /\ pos = 1
  /\ batch_size_flag \in 1..MaxBatchSize
  /\ workers_number \in 1..MaxWorkers
  /\ ctx = MakeContext(batch_size_flag, workers_number)
  /\ sessions = [i \in 0..(ctx.max_concurrent_executions - 1) |-> "null"]
  /\ batches = NewBatches(ctx.batch_size, ctx.max_batches)
  /\ pc = "adding"
  /\ bucket = "pre"
  /\ serial_i = 1
  /\ executed_batches = 0
  /\ no = 0
  /\ task_queue = <<>>
  /\ threads = [t \in 1..ctx.max_concurrent_executions |-> Idle]
  /\ ready = <<>>
  /\ faults = 0
  /\ window = 1
  /\ win_start = 1
  /\ commits = <<>>
  /\ dispatched = {}
  /\ committed = {}
  /\ cl_info = NoInfo
  /\ cl_bucket = "none"
  /\ fault_budget = MaxFaults
  /\ fetch_query_number = 0
  /\ stdin_bytes = <<>>
  /\ cin = <<>>
  /\ default_text = <<>>
  /\ yielded = <<>>
  /\ added = <<>>
  /\ cl_phrase = NoPhrase
  /\ cl_pos = 1
  /\ cl_quote = NoQuote
  /\ SyncIdle
  /\ clause_state = "NONE"

\* One iteration of FetchBatches' loop that does not break: GetQuery yields a query, which
\* is skipped if its text is empty and else counted and given to AddQuery.
FetchStep ==
  /\ pc = "adding"
  /\ ~WindowFull(fetch_query_number, ctx)
  /\ GetQuery(source, pos) # <<>>
  /\ LET query == GetQuery(source, pos)[1] IN
     IF query.query = ""
     THEN UNCHANGED <<batches, fetch_query_number>>
     ELSE /\ batches' = AddQuery(batches, query)
          /\ fetch_query_number' = fetch_query_number + 1
  /\ pos' = pos + 1
  /\ UNCHANGED <<source, batch_size_flag, workers_number, ctx, sessions, pc, bucket, serial_i,
                 executed_batches, no, task_queue, threads, ready, faults, window, win_start,
                 commits, dispatched, committed, cl_info, cl_bucket, fault_budget, stdin_bytes, cin,
                 default_text, yielded, added, cl_phrase, cl_pos, clause_state,
                 cl_quote, pool_lock_, queue_cv_, next_task, ran, mu_, cv_, notified, awaited>>

\* The loop breaks, on the bound or at the end of the input, and Finalize is called.
FetchFinalize ==
  /\ pc = "adding"
  /\ WindowFull(fetch_query_number, ctx) \/ GetQuery(source, pos) = <<>>
  /\ batches' = Finalize(batches)
  /\ pc' = "finalized"
  /\ UNCHANGED <<source, pos, batch_size_flag, workers_number, ctx, sessions, bucket, serial_i,
                 executed_batches, no, task_queue, threads, ready, faults, window, win_start,
                 commits, dispatched, committed, cl_info, cl_bucket, otherVars>>

\* Run's loop calls FetchBatches again unless the batches it got were Empty().
FetchAgain ==
  /\ pc = "finalized"
  /\ ~Empty(batches)
  /\ batches' = NewBatches(ctx.batch_size, ctx.max_batches)
  /\ fetch_query_number' = 0
  /\ win_start' = pos
  /\ window' = window + 1
  /\ pc' = "adding"
  /\ UNCHANGED <<source, pos, batch_size_flag, workers_number, ctx, sessions, bucket, serial_i,
                 executed_batches, no, task_queue, threads, ready, faults, commits, dispatched,
                 committed, cl_info, cl_bucket, fault_budget, stdin_bytes, cin, default_text, yielded,
                 added, cl_phrase, cl_pos, clause_state,
                 cl_quote, pool_lock_, queue_cv_, next_task, ran, mu_, cv_, notified, awaited>>

BatchesSpec == InitBatches /\ [][FetchStep \/ FetchFinalize \/ FetchAgain]_vars

\* ------------------------------------------------------------------------
\* The tokenizer: console::GetLine, console::ParseLine, query::GetQuery
\* ------------------------------------------------------------------------
\* A string is a sequence of bytes. The bytes the tokenizer tells apart: a letter, the
\* terminator, the two quotation marks, the backslash, a blank and the newline.
Bytes == {"a", ";", "'", "\"", "\\", " ", "\n"}

isspace(c) == c \in {" ", "\n"}

RECURSIVE TrimLeft(_)
TrimLeft(s) == IF s # <<>> /\ isspace(Head(s)) THEN TrimLeft(Tail(s)) ELSE s

RECURSIVE TrimRight(_)
TrimRight(s) ==
  IF s # <<>> /\ isspace(s[Len(s)]) THEN TrimRight(SubSeq(s, 1, Len(s) - 1)) ELSE s

Trim(s) == TrimRight(TrimLeft(s))

\* s.substr(idx), with idx counted from 0.
substr(s, idx) == SubSeq(s, idx + 1, Len(s))

\* The loop of ParseLine from index i on; quote and escaped are the caller's variables and
\* come back in the result, with the parsed text (first) and is_done (second).
RECURSIVE ParseFrom(_, _, _, _, _)
ParseFrom(line, i, quote, escaped, parsed_line) ==
  IF i > Len(line)
  THEN [first |-> parsed_line, second |-> FALSE, quote |-> quote, escaped |-> escaped]
  ELSE LET c == line[i] IN
       IF quote # NoQuote /\ c = "\\"
       THEN ParseFrom(line, i + 1, quote, ~escaped, Append(parsed_line, c))
       ELSE IF (quote = NoQuote /\ (c = "\"" \/ c = "'")) \/ (~escaped /\ c = quote)
       THEN ParseFrom(line, i + 1, IF quote # NoQuote THEN NoQuote ELSE c, FALSE,
                      Append(parsed_line, c))
       ELSE IF quote = NoQuote /\ c = ";"
       THEN [first |-> parsed_line, second |-> TRUE, quote |-> quote, escaped |-> escaped]
       ELSE ParseFrom(line, i + 1, quote, FALSE, Append(parsed_line, c))

ParseLine(line, quote, escaped) == ParseFrom(line, 1, quote, escaped, <<>>)

\* The index of the first newline of a string, 0 if it has none.
RECURSIVE FirstNewline(_, _)
FirstNewline(s, i) ==
  IF i > Len(s) THEN 0 ELSE IF s[i] = "\n" THEN i ELSE FirstNewline(s, i + 1)

\* console::GetLine: std::getline takes the bytes up to the next newline; if it meets the
\* end of the stream instead, eof() is set and nullopt is returned, whatever was read.
\* The optional line is a sequence of length 0 or 1.
GetLine(in, text) ==
  LET n == FirstNewline(in, 1) IN
  IF n = 0 THEN [line |-> <<>>, cin |-> <<>>, default_text |-> text]
  ELSE [line |-> <<text \o SubSeq(in, 1, n - 1)>>, cin |-> substr(in, n),
        default_text |-> <<>>]

\* The while loop of query::GetQuery when stdin is not a terminal.
RECURSIVE GetQueryLoop(_, _, _, _, _)
GetQueryLoop(in, text, quote, escaped, query) ==
  LET l == GetLine(in, text) IN
  IF l.line = <<>> THEN [query |-> <<>>, cin |-> l.cin, default_text |-> l.default_text]
  ELSE IF l.line[1] = <<>> THEN GetQueryLoop(l.cin, l.default_text, quote, escaped, query)
  ELSE LET line == l.line[1]
           ret == ParseLine(line, quote, escaped)
           char_count == Len(ret.first) + (IF ret.second THEN 1 ELSE 0)
           q == query \o ret.first \o (IF ret.second THEN <<>> ELSE <<"\n">>)
           rest == IF char_count < Len(line) THEN Trim(substr(line, char_count))
                   ELSE l.default_text
       IN IF ret.second THEN [query |-> <<q>>, cin |-> l.cin, default_text |-> rest]
          ELSE GetQueryLoop(l.cin, rest, ret.quote, ret.escaped, q)

\* query::GetQuery(nullptr): first the text left over from the last line is parsed; if it
\* holds no whole statement, lines are read with the quote and escape state that parse left.
query_GetQuery(in, text) ==
  LET ret == ParseLine(text, NoQuote, FALSE) IN
  IF ret.second
  THEN [query |-> <<ret.first>>, cin |-> in,
        default_text |-> Trim(substr(text, Len(ret.first) + 1))]
  ELSE GetQueryLoop(in, text, ret.quote, ret.escaped, <<>>)

RECURSIVE ByteStrings(_)
ByteStrings(n) ==
  IF n = 0 THEN {<<>>}
  ELSE LET shorter == ByteStrings(n - 1) IN
       shorter \cup {Append(s, c) : s \in {t \in shorter : Len(t) = n - 1}, c \in Bytes}

InitTokenizer ==
  /\ stdin_bytes \in ByteStrings(MaxBytes)
  /\ cin = stdin_bytes
  /\ default_text = <<>>
  /\ yielded = <<>>
  /\ added = <<>>
  /\ cl_phrase = NoPhrase
  /\ cl_pos = 1
  /\ cl_quote = NoQuote
  /\ SyncIdle
  /\ clause_state = "NONE"
  /\ pc = "reading"
  /\ source = <<>>
  /\ pos = 1
  /\ batch_size_flag = 1
  /\ workers_number = 1
  /\ ctx = MakeContext(batch_size_flag, workers_number)
  /\ sessions = [i \in 0..(ctx.max_concurrent_executions - 1) |-> "null"]
  /\ batches = NewBatches(ctx.batch_size, ctx.max_batches)
  /\ bucket = "pre"
  /\ serial_i = 1
  /\ executed_batches = 0
  /\ no = 0
  /\ task_queue = <<>>
  /\ threads = [t \in 1..ctx.max_concurrent_executions |-> Idle]
  /\ ready = <<>>
  /\ faults = 0
  /\ window = 0
  /\ win_start = 1
  /\ commits = <<>>
  /\ dispatched = {}
  /\ committed = {}
  /\ cl_info = NoInfo
  /\ cl_bucket = "none"
  /\ fault_budget = MaxFaults
  /\ fetch_query_number = 0

\* One iteration of the loop that reads the statements of an import: GetQuery; break on
\* nullopt; continue on an empty text; else the statement is passed on (to AddQuery in
\* batched mode, to ExecuteQuery in serial mode).
ReadQuery ==
  /\ pc = "reading"
  /\ LET r == query_GetQuery(cin, default_text) IN
     /\ cin' = r.cin
     /\ default_text' = r.default_text
     /\ IF r.query = <<>>
        THEN /\ pc' = "eof"
             /\ UNCHANGED <<yielded, added>>
        ELSE /\ yielded' = Append(yielded, r.query[1])
             /\ added' = IF r.query[1] = <<>> THEN added ELSE Append(added, r.query[1])
             /\ UNCHANGED pc
  /\ UNCHANGED <<source, pos, batch_size_flag, workers_number, ctx, sessions, batches, bucket,
                 serial_i, executed_batches, no, task_queue, threads, ready, faults, window,
                 win_start, commits, dispatched, committed, cl_info, cl_bucket, fault_budget,
                 fetch_query_number, stdin_bytes, cl_phrase, cl_pos, clause_state,
                 cl_quote, pool_lock_, queue_cv_, next_task, ran, mu_, cv_, notified, awaited>>

TokenizerSpec == InitTokenizer /\ [][ReadQuery]_vars

\* ------------------------------------------------------------------------
\* The classifier: query::line::NextState
\* ------------------------------------------------------------------------
IsWhitespace(c) == c \in {" ", "\t", "\n"}

\* The states NextState moves to on a whitespace byte outside a quotation.
AfterWhitespace(state) ==
  CASE state = "CREATE" -> "CREATE_"
    [] state = "MATCH" -> "MATCH_"
    [] state = "MERGE" -> "MERGE_"
    [] state = "DETACH" -> "DETACH_"
    [] state = "DROP" -> "DROP_"
    [] state = "P" -> "P_"
    [] OTHER -> state

\* The else-if chain of NextState in source order; each branch: the bytes it compares c
\* with, the states it compares state with, and the state it returns.
Chain ==
  << <<{"C", "c"}, {"NONE"}, "C">>,
     <<{"R", "r"}, {"C"}, "CR">>,
     <<{"E", "e"}, {"CR"}, "CRE">>,
     <<{"A", "a"}, {"CRE"}, "CREA">>,
     <<{"T", "t"}, {"CREA"}, "CREAT">>,
     <<{"E", "e"}, {"CREAT"}, "CREATE">>,
     <<{"("}, {"CREATE", "CREATE_"}, "CREATE_P">>,
     <<{"I", "i"}, {"CREATE_"}, "CREATE_I">>,
     <<{"N", "n"}, {"CREATE_I"}, "CREATE_IN">>,
     <<{"D", "d"}, {"CREATE_IN"}, "CREATE_IND">>,
     <<{"E", "e"}, {"CREATE_IND"}, "CREATE_INDE">>,
     <<{"X", "x"}, {"CREATE_INDE"}, "CREATE_INDEX">>,
     <<{"M", "m"}, {"NONE"}, "M">>,
     <<{"A", "a"}, {"M"}, "MA">>,
     <<{"T", "t"}, {"MA"}, "MAT">>,
     <<{"C", "c"}, {"MAT"}, "MATC">>,
     <<{"H", "h"}, {"MATC"}, "MATCH">>,
     <<{"("}, {"MATCH", "MATCH_"}, "MATCH_P">>,
     <<{"E", "e"}, {"M"}, "ME">>,
     <<{"R", "r"}, {"ME"}, "MER">>,
     <<{"G", "g"}, {"MER"}, "MERG">>,
     <<{"E", "e"}, {"MERG"}, "MERGE">>,
     <<{"("}, {"MERGE", "MERGE_"}, "MERGE_P">>,
     <<{"D", "d"}, {"NONE"}, "D">>,
     <<{"E", "e"}, {"D"}, "DE">>,
     <<{"T", "t"}, {"DE"}, "DET">>,
     <<{"A", "a"}, {"DET"}, "DETA">>,
     <<{"C", "c"}, {"DETA"}, "DETAC">>,
     <<{"H", "h"}, {"DETAC"}, "DETACH">>,
     <<{"D", "d"}, {"DETACH_"}, "DETACH_D">>,
     <<{"E", "e"}, {"DETACH_D"}, "DETACH_DE">>,
     <<{"L", "e"}, {"DETACH_DE"}, "DETACH_DEL">>,
     <<{"E", "e"}, {"DETACH_DEL"}, "DETACH_DELE">>,
     <<{"T", "e"}, {"DETACH_DELE"}, "DETACH_DELET">>,
     <<{"E", "e"}, {"DETACH_DELET"}, "DETACH_DELETE">>,
     <<{"R", "r"}, {"D"}, "DR">>,
     <<{"O", "o"}, {"DR"}, "DRO">>,
     <<{"P", "p"}, {"DRO"}, "DROP">>,
     <<{"I", "i"}, {"DROP_"}, "DROP_I">>,
     <<{"N", "n"}, {"DROP_I"}, "DROP_IN">>,
     <<{"D", "d"}, {"DROP_IN"}, "DROP_IND">>,
     <<{"E", "e"}, {"DROP_IND"}, "DROP_INDE">>,
     <<{"X", "x"}, {"DROP_INDE"}, "DROP_INDEX">>,
     <<{")"}, {"NONE"}, "P">>,
     <<{"R", "r"}, {"P_"}, "P_R">>,
     <<{"E", "e"}, {"P_R"}, "P_RE">>,
     <<{"M", "m"}, {"P_RE"}, "P_REM">>,
     <<{"O", "o"}, {"P_REM"}, "P_REMO">>,
     <<{"V", "v"}, {"P_REMO"}, "P_REMOV">>,
     <<{"E", "e"}, {"P_REMOV"}, "P_REMOVE">> >>

\* The first branch of the chain, from branch k on, whose condition holds; NONE if none.
RECURSIVE ChainFrom(_, _, _, _)
ChainFrom(k, quote, c, state) ==
  IF k > Len(Chain) THEN "NONE"
  ELSE IF quote = NoQuote /\ c \in Chain[k][1] /\ state \in Chain[k][2] THEN Chain[k][3]
  ELSE ChainFrom(k + 1, quote, c, state)

\* Mutant: the whitespace branch does not look at the quote character.
NextState_QuotedWhitespace(quote, c, state) ==
  IF IsWhitespace(c) THEN AfterWhitespace(state)
  ELSE ChainFrom(1, quote, c, state)

NextState(quote, c, state) ==
  IF quote = NoQuote /\ IsWhitespace(c) THEN AfterWhitespace(state)
  ELSE ChainFrom(1, quote, c, state)

\* The phrases of the recognized-token table in upper case, each with the ClauseState that
\* stands for it.
Phrases ==
  { [text |-> <<"C", "R", "E", "A", "T", "E", "(">>, accept |-> "CREATE_P"],
    [text |-> <<"C", "R", "E", "A", "T", "E", " ", "(">>, accept |-> "CREATE_P"],
    [text |-> <<"M", "A", "T", "C", "H", "(">>, accept |-> "MATCH_P"],
    [text |-> <<"M", "A", "T", "C", "H", " ", "(">>, accept |-> "MATCH_P"],
    [text |-> <<"M", "E", "R", "G", "E", "(">>, accept |-> "MERGE_P"],
    [text |-> <<"M", "E", "R", "G", "E", " ", "(">>, accept |-> "MERGE_P"],
    [text |-> <<"C", "R", "E", "A", "T", "E", " ", "I", "N", "D", "E", "X">>,
     accept |-> "CREATE_INDEX"],
    [text |-> <<"D", "R", "O", "P", " ", "I", "N", "D", "E", "X">>, accept |-> "DROP_INDEX"],
    [text |-> <<"D", "E", "T", "A", "C", "H", " ", "D", "E", "L", "E", "T", "E">>,
     accept |-> "DETACH_DELETE"],
    [text |-> <<")", " ", "R", "E", "M", "O", "V", "E">>, accept |-> "P_REMOVE"] }

UpperCase == <<"A", "C", "D", "E", "G", "H", "I", "L", "M", "N", "O", "P", "R", "T", "V", "X">>

LowerCase == <<"a", "c", "d", "e", "g", "h", "i", "l", "m", "n", "o", "p", "r", "t", "v", "x">>

\* tolower of a byte: the lower-case letter of an upper-case letter, any other byte itself.
ToLower(c) ==
  IF \E k \in 1..Len(UpperCase) : UpperCase[k] = c
  THEN LowerCase[CHOOSE k \in 1..Len(UpperCase) : UpperCase[k] = c]
  ELSE c

\* Every way to spell a phrase with upper- and lower-case letters.
Spellings(phrase) ==
  { [text |-> [i \in 1..Len(phrase.text) |->
                 IF lower[i] THEN ToLower(phrase.text[i]) ELSE phrase.text[i]],
     accept |-> phrase.accept] : lower \in [1..Len(phrase.text) -> BOOLEAN] }

InitClassifier ==
  /\ cl_phrase \in UNION {Spellings(phrase) : phrase \in Phrases}
  /\ cl_pos = 1
  /\ cl_quote = NoQuote
  /\ SyncIdle
  /\ clause_state = "NONE"
  /\ pc = "classifier"
  /\ source = <<>>
  /\ pos = 1
  /\ batch_size_flag = 1
  /\ workers_number = 1
  /\ ctx = MakeContext(batch_size_flag, workers_number)
  /\ sessions = [i \in 0..(ctx.max_concurrent_executions - 1) |-> "null"]
  /\ batches = NewBatches(ctx.batch_size, ctx.max_batches)
  /\ bucket = "pre"
  /\ serial_i = 1
  /\ executed_batches = 0
  /\ no = 0
  /\ task_queue = <<>>
  /\ threads = [t \in 1..ctx.max_concurrent_executions |-> Idle]
  /\ ready = <<>>
  /\ faults = 0
  /\ window = 0
  /\ win_start = 1
  /\ commits = <<>>
  /\ dispatched = {}
  /\ committed = {}
  /\ cl_info = NoInfo
  /\ cl_bucket = "none"
  /\ fault_budget = MaxFaults
  /\ fetch_query_number = 0
  /\ stdin_bytes = <<>>
  /\ cin = <<>>
  /\ default_text = <<>>
  /\ yielded = <<>>
  /\ added = <<>>

\* The classifier is given the next byte of the statement.
FeedByte ==
  /\ pc = "classifier"
  /\ cl_pos <= Len(cl_phrase.text)
  /\ clause_state' = NextState(cl_quote, cl_phrase.text[cl_pos], clause_state)
  /\ cl_pos' = cl_pos + 1
  /\ UNCHANGED <<source, pos, batch_size_flag, workers_number, ctx, sessions, batches, pc, bucket,
                 serial_i, executed_batches, no, task_queue, threads, ready, faults, window,
                 win_start, commits, dispatched, committed, cl_info, cl_bucket, fault_budget,
                 fetch_query_number, stdin_bytes, cin, default_text, yielded, added, cl_phrase,
                 cl_quote, pool_lock_, queue_cv_, next_task, ran, mu_, cv_, notified, awaited>>

ClassifierSpec == InitClassifier /\ [][FeedByte]_vars

\* enum class ClauseState.
ClauseStates ==
  {"NONE", "C", "CR", "CRE", "CREA", "CREAT", "CREATE", "CREATE_", "CREATE_P",
   "CREATE_I", "CREATE_IN", "CREATE_IND", "CREATE_INDE", "CREATE_INDEX",
   "M", "MA", "MAT", "MATC", "MATCH", "MATCH_", "MATCH_P",
   "ME", "MER", "MERG", "MERGE", "MERGE_", "MERGE_P",
   "D", "DE", "DET", "DETA", "DETAC", "DETACH", "DETACH_", "DETACH_D", "DETACH_DE",
   "DETACH_DEL", "DETACH_DELE", "DETACH_DELET", "DETACH_DELETE",
   "DR", "DRO", "DROP", "DROP_", "DROP_I", "DROP_IN", "DROP_IND", "DROP_INDE", "DROP_INDEX",
   "P", "P_", "P_R", "P_RE", "P_REM", "P_REMO", "P_REMOV", "P_REMOVE"}

\* The bytes NextState is tried on: the letters it compares with, in both cases, the two
\* parentheses, the three whitespace bytes, the two quote characters, and bytes it never
\* compares with.
ClassifierBytes ==
  {UpperCase[k] : k \in 1..Len(UpperCase)} \cup {LowerCase[k] : k \in 1..Len(LowerCase)}
    \cup {"(", ")", " ", "\t", "\n", "'", "\"", ";", "_", "9", "Z", "z"}

\* The values of the caller's quote character.
Quotes == {NoQuote, "'", "\""}

\* The variables of the import and of the tokenizer while only the classifier runs.
ClassifierOnly ==
  /\ pc = "classifier"
  /\ SyncIdle
  /\ source = <<>>
  /\ pos = 1
  /\ batch_size_flag = 1
  /\ workers_number = 1
  /\ ctx = MakeContext(batch_size_flag, workers_number)
  /\ sessions = [i \in 0..(ctx.max_concurrent_executions - 1) |-> "null"]
  /\ batches = NewBatches(ctx.batch_size, ctx.max_batches)
  /\ bucket = "pre"
  /\ serial_i = 1
  /\ executed_batches = 0
  /\ no = 0
  /\ task_queue = <<>>
  /\ threads = [t \in 1..ctx.max_concurrent_executions |-> Idle]
  /\ ready = <<>>
  /\ faults = 0
  /\ window = 0
  /\ win_start = 1
  /\ commits = <<>>
  /\ dispatched = {}
  /\ committed = {}
  /\ cl_info = NoInfo
  /\ cl_bucket = "none"
  /\ fault_budget = MaxFaults
  /\ fetch_query_number = 0
  /\ stdin_bytes = <<>>
  /\ cin = <<>>
  /\ default_text = <<>>
  /\ yielded = <<>>
  /\ added = <<>>

\* One call of NextState: any state of the enum, any byte, inside or outside a quotation.
InitNextState ==
  /\ cl_phrase \in {[text |-> <<c>>, accept |-> "NONE"] : c \in ClassifierBytes}
  /\ cl_pos = 1
  /\ clause_state \in ClauseStates
  /\ cl_quote \in Quotes
  /\ ClassifierOnly

NextStateSpec == InitNextState /\ [][FeedByte]_vars

\* A phrase in upper case and in lower case.
PlainSpellings(phrase) ==
  {phrase, [text |-> [i \in 1..Len(phrase.text) |-> ToLower(phrase.text[i])],
            accept |-> phrase.accept]}

\* Bytes of an identifier that begin no phrase.
IdentifierBytes == {"X", "_", "9"}

\* The classifier is given a phrase that begins with a letter, right after an identifier
\* byte, outside any quotation.
InitPrefixed ==
  /\ cl_phrase \in
       {[text |-> <<x>> \o sp.text, accept |-> sp.accept] :
          x \in IdentifierBytes,
          sp \in UNION {PlainSpellings(phrase) :
                          phrase \in {ph \in Phrases : ToLower(ph.text[1]) # ph.text[1]}}}
  /\ cl_pos = 1
  /\ clause_state = "NONE"
  /\ cl_quote = NoQuote
  /\ ClassifierOnly

PrefixedSpec == InitPrefixed /\ [][FeedByte]_vars

\* The bytes of the second word that are tried after "DETACH D".
DeleteLetters == {"E", "L", "T", "e", "l", "t"}

\* The classifier is given DETACH, a space, D and five more letters.
InitDelete ==
  /\ cl_phrase \in
       {[text |-> <<"D", "E", "T", "A", "C", "H", " ", "D">> \o w, accept |-> "DETACH_DELETE"] :
          w \in [1..5 -> DeleteLetters]}
  /\ cl_pos = 1
  /\ clause_state = "NONE"
  /\ cl_quote = NoQuote
  /\ ClassifierOnly

DeleteSpec == InitDelete /\ [][FeedByte]_vars

\* ------------------------------------------------------------------------
\* The grouper's bucket choice on its own, over every combination of flags
\* ------------------------------------------------------------------------
\* The list of a Batches value that received the one query added to it.
WhereAdded(bs) ==
  IF bs.pre_queries # <<>> THEN "pre"
  ELSE IF bs.vertices_batch.queries # <<>> \/ bs.vertex_batches # <<>> THEN "vertex"
  ELSE IF bs.edges_batch.queries # <<>> \/ bs.edge_batches # <<>> THEN "edge"
  ELSE IF bs.post_queries # <<>> THEN "post"
  ELSE "none"

InitGrouper ==
  /\ cl_info \in QueryInfo
  /\ cl_bucket = "none"
  /\ source = <<>>
  /\ pos = 1
  /\ batch_size_flag \in 1..MaxBatchSize
  /\ workers_number = 1
  /\ ctx = MakeContext(batch_size_flag, workers_number)
  /\ sessions = [i \in 0..(ctx.max_concurrent_executions - 1) |-> "null"]
  /\ batches = NewBatches(ctx.batch_size, ctx.max_batches)
  /\ pc = "grouper"
  /\ bucket = "pre"
  /\ serial_i = 1
  /\ executed_batches = 0
  /\ no = 0
  /\ task_queue = <<>>
  /\ threads = [t \in 1..ctx.max_concurrent_executions |-> Idle]
  /\ ready = <<>>
  /\ faults = 0
  /\ window = 0
  /\ win_start = 1
  /\ commits = <<>>
  /\ dispatched = {}
  /\ committed = {}
  /\ fault_budget = MaxFaults
  /\ fetch_query_number = 0
  /\ stdin_bytes = <<>>
  /\ cin = <<>>
  /\ default_text = <<>>
  /\ yielded = <<>>
  /\ added = <<>>
  /\ cl_phrase = NoPhrase
  /\ cl_pos = 1
  /\ cl_quote = NoQuote
  /\ SyncIdle
  /\ clause_state = "NONE"

\* batches.AddQuery(query) for a query that carries the flags cl_info.
AddOneQuery ==
  /\ pc = "grouper"
  /\ cl_bucket = "none"
  /\ batches' = AddQuery(batches, [index |-> 1, query |-> "q", info |-> cl_info])
  /\ cl_bucket' = WhereAdded(batches')
  /\ UNCHANGED <<source, pos, batch_size_flag, workers_number, ctx, sessions, pc, bucket,
                 serial_i, executed_batches, no, task_queue, threads, ready, faults, window,
                 win_start, commits, dispatched, committed, cl_info, otherVars>>

GrouperSpec == InitGrouper /\ [][AddOneQuery]_vars

\* ------------------------------------------------------------------------
\* utils::ThreadPool on its own: AddTask, PopTask, ThreadLoop
\* ------------------------------------------------------------------------
\* Everything but the pool, the notifier and the main thread's position is at rest.
NoImport ==
  /\ source = <<>>
  /\ pos = 1
  /\ batch_size_flag = 1
  /\ ctx = MakeContext(batch_size_flag, workers_number)
  /\ sessions = [i \in 0..(ctx.max_concurrent_executions - 1) |-> "null"]
  /\ batches = NewBatches(ctx.batch_size, ctx.max_batches)
  /\ bucket = "pre"
  /\ serial_i = 1
  /\ executed_batches = 0
  /\ faults = 0
  /\ window = 0
  /\ win_start = 1
  /\ commits = <<>>
  /\ dispatched = {}
  /\ committed = {}
  /\ cl_info = NoInfo
  /\ cl_bucket = "none"
  /\ fault_budget = MaxFaults
  /\ fetch_query_number = 0
  /\ stdin_bytes = <<>>
  /\ cin = <<>>
  /\ default_text = <<>>
  /\ yielded = <<>>
  /\ added = <<>>
  /\ cl_phrase = NoPhrase
  /\ cl_pos = 1
  /\ cl_quote = NoQuote
  /\ clause_state = "NONE"

\* The thread that calls AddTask, as a holder of pool_lock_ (pool threads count from 1).
Caller == 0

\* nullptr as a task.
NoTask == 0

\* A pool thread at the first line of ThreadLoop.
Starting == [pc |-> "pop", task |-> NoTask]

\* The pool is constructed with workers_number threads; the caller will add MaxTasks tasks.
InitPool ==
  /\ workers_number \in 1..MaxWorkers
  /\ NoImport
  /\ pc = "add"
  /\ no = 0
  /\ task_queue = <<>>
  /\ threads = [t \in 1..workers_number |-> Starting]
  /\ ready = <<>>
  /\ pool_lock_ = {}
  /\ queue_cv_ = {}
  /\ next_task = 1
  /\ ran = <<>>
  /\ mu_ = {}
  /\ cv_ = {}
  /\ notified = <<>>
  /\ awaited = <<>>

poolRest == <<source, pos, batch_size_flag, workers_number, ctx, sessions, batches, bucket,
              serial_i, executed_batches, no, ready, faults, window, win_start, commits,
              dispatched, committed, cl_info, cl_bucket, fault_budget, fetch_query_number,
              stdin_bytes, cin, default_text, yielded, added, cl_phrase, cl_pos, clause_state,
              cl_quote, mu_, cv_, notified, awaited>>

\* AddTask, first statement: the task is put at the back of the queue under the queue's lock.
AddTaskEnqueue ==
  /\ pc = "add"
  /\ next_task <= MaxTasks
  /\ task_queue' = Append(task_queue, next_task)
  /\ pc' = "add_lock"
  /\ UNCHANGED <<threads, pool_lock_, queue_cv_, next_task, ran, poolRest>>

\* std::unique_lock pool_guard(pool_lock_);
AddTaskLock ==
  /\ pc = "add_lock"
  /\ pool_lock_ = {}
  /\ pool_lock_' = {Caller}
  /\ pc' = "add_notify"
  /\ UNCHANGED <<task_queue, threads, queue_cv_, next_task, ran, poolRest>>

\* Mutant: notify_one wakes nobody.
NotifyOne_Lost(waiters) == {{}}

\* queue_cv_.notify_one(): the sets of threads it may wake: one of the waiting threads, or
\* none if no thread waits.
NotifyOne(waiters) == IF waiters = {} THEN {{}} ELSE {{t} : t \in waiters}

\* queue_cv_.notify_one(); and the guard is released as AddTask returns.
AddTaskNotify ==
  /\ pc = "add_notify"
  /\ \E woken \in NotifyOne(queue_cv_) :
       /\ queue_cv_' = queue_cv_ \ woken
       /\ threads' = [t \in DOMAIN threads |->
                        IF t \in woken THEN [threads[t] EXCEPT !.pc = "woken"] ELSE threads[t]]
  /\ pool_lock_' = {}
  /\ next_task' = next_task + 1
  /\ pc' = "add"
  /\ UNCHANGED <<task_queue, ran, poolRest>>

\* Mutant: PopTask hands out the front task and leaves it in the queue.
ThreadPool_PopTask_Keep(queue) ==
  IF queue = <<>> THEN [task |-> NoTask, queue |-> queue]
  ELSE [task |-> Head(queue), queue |-> queue]

\* ThreadPool::PopTask: nullptr if the queue is empty, else the front task, which is popped.
ThreadPool_PopTask(queue) ==
  IF queue = <<>> THEN [task |-> NoTask, queue |-> queue]
  ELSE [task |-> Head(queue), queue |-> Tail(queue)]

\* task = PopTask(); at the start of ThreadLoop and after a task has been run.
ThreadPop(t) ==
  /\ threads[t].pc = "pop"
  /\ LET r == ThreadPool_PopTask(task_queue) IN
     /\ task_queue' = r.queue
     /\ threads' = [threads EXCEPT ![t] = [pc |-> IF r.task = NoTask THEN "lock" ELSE "run",
                                           task |-> r.task]]
  /\ UNCHANGED <<pc, pool_lock_, queue_cv_, next_task, ran, poolRest>>

\* (*task)();
ThreadRun(t) ==
  /\ threads[t].pc = "run"
  /\ ran' = Append(ran, [task |-> threads[t].task, thread |-> t])
  /\ threads' = [threads EXCEPT ![t] = Starting]
  /\ UNCHANGED <<pc, task_queue, pool_lock_, queue_cv_, next_task, poolRest>>

\* std::unique_lock guard(pool_lock_); and the lock taken again when a wait ends.
ThreadLock(t) ==
  /\ threads[t].pc \in {"lock", "woken"}
  /\ pool_lock_ = {}
  /\ pool_lock_' = {t}
  /\ threads' = [threads EXCEPT ![t].pc = "pred"]
  /\ UNCHANGED <<pc, task_queue, queue_cv_, next_task, ran, poolRest>>

\* The predicate of queue_cv_.wait, evaluated with the lock held: task = PopTask(). With a
\* task the wait returns and the guard is released at the end of the loop body; without
\* one the thread releases the lock and blocks, in one step.
ThreadPred(t) ==
  /\ threads[t].pc = "pred"
  /\ LET r == ThreadPool_PopTask(task_queue) IN
     /\ task_queue' = r.queue
     /\ IF r.task = NoTask
        THEN /\ threads' = [threads EXCEPT ![t].pc = "waiting"]
             /\ queue_cv_' = queue_cv_ \cup {t}
        ELSE /\ threads' = [threads EXCEPT ![t] = [pc |-> "run", task |-> r.task]]
             /\ UNCHANGED queue_cv_
  /\ pool_lock_' = {}
  /\ UNCHANGED <<pc, next_task, ran, poolRest>>

\* A wait may end without a notification.
SpuriousWakeup(t) ==
  /\ threads[t].pc = "waiting"
  /\ threads' = [threads EXCEPT ![t].pc = "woken"]
  /\ queue_cv_' = queue_cv_ \ {t}
  /\ UNCHANGED <<pc, task_queue, pool_lock_, next_task, ran, poolRest>>

AddTask == AddTaskEnqueue \/ AddTaskLock \/ AddTaskNotify

ThreadLoop(t) == ThreadPop(t) \/ ThreadRun(t) \/ ThreadLock(t) \/ ThreadPred(t)

NextPool ==
  \/ AddTaskEnqueue
  \/ AddTaskLock
  \/ AddTaskNotify
  \/ \E t \in 1..workers_number : ThreadPop(t)
  \/ \E t \in 1..workers_number : ThreadRun(t)
  \/ \E t \in 1..workers_number : ThreadLock(t)
  \/ \E t \in 1..workers_number : ThreadPred(t)
  \/ \E t \in 1..workers_number : SpuriousWakeup(t)

PoolSpec == InitPool /\ [][NextPool]_vars

\* Every thread that can take a step eventually takes one; a wait never has to end on
\* its own.
\* Every thread that can take a step eventually takes one, and a thread that asks for
\* pool_lock_ gets it if the lock is free again and again; a wait never has to end on its
\* own.
FairPoolSpec ==
  /\ PoolSpec
  /\ WF_vars(AddTask)
  /\ SF_vars(AddTaskLock)
  /\ \A t \in 1..MaxWorkers : WF_vars(t \in 1..workers_number /\ ThreadLoop(t))
  /\ \A t \in 1..MaxWorkers : SF_vars(t \in 1..workers_number /\ ThreadLock(t))

\* ------------------------------------------------------------------------
\* utils::Inner, the notifier, on its own: Notify and Await
\* ------------------------------------------------------------------------
\* The thread that calls Await, as a holder of mu_ and a waiter on cv_ (the threads that
\* call Notify count from 1).
Awaiter == 0

\* A thread that is in no call of Notify.
Outside == [pc |-> "idle", task |-> NoTask]

\* Inner as constructed: nothing is ready, nobody holds mu_ or waits on cv_.
InitNotifier ==
  /\ workers_number \in 1..MaxWorkers
  /\ NoImport
  /\ pc = "idle"
  /\ no = 0
  /\ task_queue = <<>>
  /\ threads = [t \in 1..workers_number |-> Outside]
  /\ ready = <<>>
  /\ pool_lock_ = {}
  /\ queue_cv_ = {}
  /\ next_task = 1
  /\ ran = <<>>
  /\ mu_ = {}
  /\ cv_ = {}
  /\ notified = <<>>
  /\ awaited = <<>>

notifierRest == <<source, pos, batch_size_flag, workers_number, ctx, sessions, batches, bucket,
                  serial_i, executed_batches, no, faults, window, win_start, commits,
                  dispatched, committed, cl_info, cl_bucket, fault_budget, fetch_query_number,
                  stdin_bytes, cin, default_text, yielded, added, cl_phrase, cl_pos,
                  clause_state, cl_quote, task_queue, pool_lock_, queue_cv_, next_task, ran>>

\* A thread calls Notify(readiness_token); at most MaxTokens calls are made.
NotifyCall(t, token) ==
  /\ threads[t].pc = "idle"
  /\ Len(notified) < MaxTokens
  /\ notified' = Append(notified, token)
  /\ threads' = [threads EXCEPT ![t] = [pc |-> "emplace", task |-> token]]
  /\ UNCHANGED <<pc, ready, mu_, cv_, awaited, notifierRest>>

\* { std::unique_lock lock(mu_); ready_.emplace_back(readiness_token); }
NotifyEmplace(t) ==
  /\ threads[t].pc = "emplace"
  /\ mu_ = {}
  /\ ready' = Append(ready, threads[t].task)
  /\ threads' = [threads EXCEPT ![t].pc = "notify_all"]
  /\ UNCHANGED <<pc, mu_, cv_, notified, awaited, notifierRest>>

\* Mutant: notify_all wakes nobody.
WokenByNotifyAll_None(waiters) == {}

\* cv_.notify_all(): the threads it wakes.
WokenByNotifyAll(waiters) == waiters

\* cv_.notify_all(); after the mutex is dropped, and Notify returns.
NotifyAll(t) ==
  /\ threads[t].pc = "notify_all"
  /\ cv_' = cv_ \ WokenByNotifyAll(cv_)
  /\ pc' = IF Awaiter \in WokenByNotifyAll(cv_) THEN "cv_woken" ELSE pc
  /\ threads' = [threads EXCEPT ![t] = Outside]
  /\ UNCHANGED <<ready, mu_, notified, awaited, notifierRest>>

\* The main thread calls Await; one call more than there can be tokens is the last.
AwaitCall ==
  /\ pc = "idle"
  /\ Len(awaited) <= MaxTokens
  /\ pc' = "await_lock"
  /\ UNCHANGED <<threads, ready, mu_, cv_, notified, awaited, notifierRest>>

\* std::unique_lock lock(mu_); and the lock taken again when cv_.wait ends.
AwaitLock ==
  /\ pc \in {"await_lock", "cv_woken"}
  /\ mu_ = {}
  /\ mu_' = {Awaiter}
  /\ pc' = "await_check"
  /\ UNCHANGED <<threads, ready, cv_, notified, awaited, notifierRest>>

\* Mutant: Await returns the last token and leaves it in ready_.
TakeBack_Keep(ready_) == [ret |-> ready_[Len(ready_)], ready_ |-> ready_]

\* ReadinessToken ret = ready_.back(); ready_.pop_back();
TakeBack(ready_) == [ret |-> ready_[Len(ready_)], ready_ |-> SubSeq(ready_, 1, Len(ready_) - 1)]

\* while (ready_.empty()) cv_.wait(lock); with the lock held: on an empty vector the
\* thread releases mu_ and blocks, in one step; otherwise it takes the last token and
\* returns it, and the lock is released at the return.
AwaitCheck ==
  /\ pc = "await_check"
  /\ IF ready = <<>>
     THEN /\ cv_' = cv_ \cup {Awaiter}
          /\ pc' = "cv_wait"
          /\ UNCHANGED <<ready, awaited>>
     ELSE /\ ready' = TakeBack(ready).ready_
          /\ awaited' = Append(awaited, TakeBack(ready).ret)
          /\ pc' = "idle"
          /\ UNCHANGED cv_
  /\ mu_' = {}
  /\ UNCHANGED <<threads, notified, notifierRest>>

\* cv_.wait may end without a notification.
AwaitSpuriousWakeup ==
  /\ pc = "cv_wait"
  /\ cv_' = cv_ \ {Awaiter}
  /\ pc' = "cv_woken"
  /\ UNCHANGED <<threads, ready, mu_, notified, awaited, notifierRest>>

\* The steps of a call of Notify that is under way.
InNotify(t) == NotifyEmplace(t) \/ NotifyAll(t)

\* The steps of a call of Await that is under way.
InAwait == AwaitLock \/ AwaitCheck

NextNotifier ==
  \/ \E t \in 1..workers_number, token \in 1..workers_number : NotifyCall(t, token)
  \/ \E t \in 1..workers_number : NotifyEmplace(t)
  \/ \E t \in 1..workers_number : NotifyAll(t)
  \/ AwaitCall
  \/ AwaitLock
  \/ AwaitCheck
  \/ AwaitSpuriousWakeup

NotifierSpec == InitNotifier /\ [][NextNotifier]_vars

\* A call that is under way goes on, and a thread that asks for mu_ gets it if the mutex
\* is free again and again. Nothing obliges a thread to call Notify or Await, and a wait
\* never has to end on its own.
FairNotifierSpec ==
  /\ NotifierSpec
  /\ WF_vars(InAwait)
  /\ SF_vars(AwaitLock)
  /\ \A t \in 1..MaxWorkers : WF_vars(t \in 1..workers_number /\ InNotify(t))
  /\ \A t \in 1..MaxWorkers : SF_vars(t \in 1..workers_number /\ NotifyEmplace(t))

\* ========================================================================
\* Properties
\* ========================================================================
RECURSIVE Flatten(_)
Flatten(ss) == IF ss = <<>> THEN <<>> ELSE Head(ss) \o Flatten(Tail(ss))

Range(f) == {f[k] : k \in DOMAIN f}

\* The indexes of the statements executed so far.
Executed == Range(Flatten(commits))

\* The non-empty statements the tokenizer emits for an input.
NonEmpty(src) == {k \in 1..Len(src) : src[k] # ""}

\* The non-empty statements FetchBatches read for the current window.
WindowRead == {k \in win_start..(pos - 1) : source[k] # ""}

AllBatchesExecuted(bv) == \A i \in 1..Len(bv) : bv[i].is_executed

\* C1: when the import returns, the number of statements executed equals the number of
\* non-empty statements the tokenizer emitted.
C1_AllEmittedExecuted ==
  pc = "done" => Len(Flatten(commits)) = Cardinality(NonEmpty(source))

\* C2 as stated: over the whole import no vertex batch is committed once any edge batch,
\* of whatever window, has been dispatched.
C2_VertexBeforeEdgeAcrossWindows ==
  [][\A v \in committed' \ committed :
       v.bucket = "vertex" => ~\E e \in dispatched : e.bucket = "edge"]_vars

\* C2 amended: within one fetched window every vertex batch is committed before any edge
\* batch of that window is dispatched.
C2_VertexBeforeEdgeInWindow ==
  [][\A v \in committed' \ committed :
       v.bucket = "vertex" =>
         ~\E e \in dispatched : e.bucket = "edge" /\ e.window = v.window]_vars

C2_Witness ==
  \E v \in committed, e \in dispatched :
    v.bucket = "vertex" /\ e.bucket = "edge" /\ v.window = e.window

\* The threads that are inside a call on the session of a slot, or about to read or
\* replace it: pool threads running a task bound to the slot, and the main thread in
\* ExecuteSerial for slot 0.
SessionUsers(slot) ==
  {t \in PoolThreads : threads[t].pc \in {"exec", "status"} /\ threads[t].thread_i = slot}

UseCount(slot) == Cardinality(SessionUsers(slot)) + (IF MainUsesSession(slot) THEN 1 ELSE 0)

\* C3: at every instant at most one thread uses the session of a slot.
C3_SessionExclusive == pc \notin Dead => \A slot \in Slots : UseCount(slot) <= 1

\* C4: within a window no vertex batch is dispatched before every pre statement has
\* completed, no edge batch before every vertex batch is executed, and no post statement
\* runs before every edge batch is executed.
C4_BucketOrder ==
  /\ (\E d \in dispatched : d.window = window /\ d.bucket = "vertex")
       => \A k \in 1..Len(batches.pre_queries) : batches.pre_queries[k].index \in Executed
  /\ (\E d \in dispatched : d.window = window /\ d.bucket = "edge")
       => AllBatchesExecuted(batches.vertex_batches)
  /\ (\E k \in 1..Len(batches.post_queries) : batches.post_queries[k].index \in Executed)
       => AllBatchesExecuted(batches.edge_batches)

C4_Witness ==
  /\ batches.vertex_batches # <<>>
  /\ batches.edge_batches # <<>>
  /\ \E k \in 1..Len(batches.post_queries) : batches.post_queries[k].index \in Executed

\* The pool threads that are inside ExecuteBatch.
Executing == {t \in PoolThreads : threads[t].pc = "exec"}

\* C5: at every instant at most workers_number batches are being executed.
C5_AtMostWExecuting == Cardinality(Executing) <= workers_number

C5_Witness == workers_number >= 2 /\ Cardinality(Executing) = workers_number

Terminated == pc \in {"done"} \cup Dead

\* C6 as stated: with a finite input and finitely many failed attempts, under fair
\* scheduling, Run (once its context is built and it starts to fetch) eventually returns.
C6_RunReturns == (pc = "fetch") ~> (pc = "done")

\* C6 amended: under the same assumptions the import eventually ends: Run returns, or a
\* fatal error has ended the process.
C6_ImportTerminates == <>Terminated

C6_Witness == pc = "done" /\ faults > 0 /\ window >= 2 /\ commits # <<>>

\* C7: ExecuteBatchesParallel returns only when every batch of its vector is executed, and
\* once every batch is executed it returns instead of starting another round.
C7_PhaseEndsIffAllExecuted ==
  /\ (window > 0 /\ bucket \in {"edge", "post"}) => AllBatchesExecuted(batches.vertex_batches)
  /\ (window > 0 /\ bucket = "post") => AllBatchesExecuted(batches.edge_batches)
  /\ (window > 0 /\ pc \in {"fetch", "done"})
       => AllBatchesExecuted(batches.vertex_batches) /\ AllBatchesExecuted(batches.edge_batches)
  /\ (pc = "parallel" /\ AllBatchesExecuted(ParallelBatches))
       => ENABLED ExecuteBatchesParallelReturn /\ ~ENABLED DispatchRound

C7_Witness ==
  /\ bucket = "edge"
  /\ Len(batches.vertex_batches) >= 2
  /\ \E i \in 1..Len(batches.vertex_batches) : batches.vertex_batches[i].attempts > 0

\* The indexes of the statements held by the batches of a list.
InBatches(bv) == UNION {Range(QueryIndexes(bv[i].queries)) : i \in 1..Len(bv)}

\* C8: after Finalize every vertex or edge statement that AddQuery accepted for the window
\* is contained in a batch of vertex_batches or edge_batches.
C8_FinalizeSealsOpenBatches ==
  window > 0 =>
    \A k \in WindowRead :
      /\ BucketOf(InfoOf(source[k])) = "vertex" => k \in InBatches(batches.vertex_batches)
      /\ BucketOf(InfoOf(source[k])) = "edge" => k \in InBatches(batches.edge_batches)

\* The bucket rule as stated: pre on create-index, drop-index or storage-mode; else vertex
\* on create without match, merge, detach-delete, remove; else edge on match and create;
\* else post.
StatedBucket(info) ==
  IF info.has_create_index \/ info.has_drop_index \/ info.has_storage_mode THEN "pre"
  ELSE IF /\ info.has_create /\ ~info.has_match /\ ~info.has_merge
          /\ ~info.has_detach_delete /\ ~info.has_remove THEN "vertex"
  ELSE IF info.has_match /\ info.has_create THEN "edge"
  ELSE "post"

\* C9: the grouper puts a query into the bucket the stated rule gives for its flags.
C9_BucketRule == cl_bucket # "none" => cl_bucket = StatedBucket(cl_info)

\* mode::serial_import::Run when every statement succeeds: one commit per non-empty
\* statement, in input order.
RECURSIVE SerialRun(_, _)
SerialRun(src, p) ==
  IF p > Len(src) THEN <<>>
  ELSE IF src[p] = "" THEN SerialRun(src, p + 1)
  ELSE <<<<p>>>> \o SerialRun(src, p + 1)

\* C10: with batch_size = 1 and workers = 1 the import commits what serial mode commits:
\* the same statements, one per commit, in the same order.
C10_SingletonEqualsSerial ==
  (pc = "done" /\ batch_size_flag = 1 /\ workers_number = 1) => commits = SerialRun(source, 1)

CeilDiv(n, b) == (n + b - 1) \div b

\* The input is a non-empty run of pure vertex-create statements.
PureVertexInput == source # <<>> /\ \A k \in 1..Len(source) : source[k] = "CREATE"

\* C11: an input of N pure vertex creates imported with batch size B is executed as exactly
\* ceil(N / B) batches, each committed once: ceil(N / B) commits when Run returns.
C11_CeilBatches ==
  (pc = "done" /\ PureVertexInput) => Len(commits) = CeilDiv(Len(source), batch_size_flag)

\* The indexes lo..hi of the statements of bucket b, in arrival order.
RECURSIVE ArrivalOrder(_, _, _)
ArrivalOrder(lo, hi, b) ==
  IF lo > hi THEN <<>>
  ELSE IF source[lo] # "" /\ BucketOf(InfoOf(source[lo])) = b
       THEN <<lo>> \o ArrivalOrder(lo + 1, hi, b)
       ELSE ArrivalOrder(lo + 1, hi, b)

\* The statements of the batches of a list, concatenated in the order of the list.
Concatenated(bv) == Flatten([i \in 1..Len(bv) |-> QueryIndexes(bv[i].queries)])

\* C12: the queries of the vertex batches of a window, concatenated in sealing order, are
\* exactly the vertex statements read for the window in arrival order; likewise for edges.
C12_OrderPreserving ==
  window > 0 =>
    /\ Concatenated(batches.vertex_batches) = ArrivalOrder(win_start, pos - 1, "vertex")
    /\ Concatenated(batches.edge_batches) = ArrivalOrder(win_start, pos - 1, "edge")

\* Every batch of the current window: the two open ones and the sealed ones.
AllBatches ==
  {batches.vertices_batch, batches.edges_batch}
    \cup Range(batches.vertex_batches) \cup Range(batches.edge_batches)

\* C13: for every batch, 1 <= backoff <= 100 in every state: after construction, after
\* every failed attempt, and when a task reads it to decide on sleeping.
C13_BackoffInvariant == \A b \in AllBatches : 1 <= b.backoff /\ b.backoff <= 100

C13_Witness == \E b \in AllBatches : b.attempts >= 7 /\ b.backoff = 1 /\ ~b.is_executed

\* The text of the statement the next iteration of FetchBatches' loop will read.
NextText == IF pos <= Len(source) THEN source[pos] ELSE ""

\* A step in which AddQuery is given a statement of bucket b.
Adds(b) == pc = "adding" /\ pos' = pos + 1 /\ NextText # "" /\ BucketOf(InfoOf(NextText)) = b

\* C14: no batch, open or sealed, ever holds more queries than its capacity, which is the
\* configured batch size; and when the open batch of a bucket is full, the next statement of
\* that bucket seals it and becomes the only query of a freshly opened batch.
C14_Capacity ==
  /\ [](\A b \in AllBatches : b.capacity = batch_size_flag /\ Len(b.queries) <= b.capacity)
  /\ [][/\ (Adds("vertex") /\ Len(batches.vertices_batch.queries) = batches.vertices_batch.capacity)
            => /\ batches'.vertex_batches = Append(batches.vertex_batches, batches.vertices_batch)
               /\ QueryIndexes(batches'.vertices_batch.queries) = <<pos>>
        /\ (Adds("edge") /\ Len(batches.edges_batch.queries) = batches.edges_batch.capacity)
            => /\ batches'.edge_batches = Append(batches.edge_batches, batches.edges_batch)
               /\ QueryIndexes(batches'.edges_batch.queries) = <<pos>>]_vars

C14_Witness ==
  /\ pc = "adding"
  /\ batches.vertex_batches # <<>>
  /\ Len(batches.vertex_batches[1].queries) = batches.vertex_batches[1].capacity
  /\ batches.vertex_batches[1].capacity >= 2
  /\ Len(batches.vertices_batch.queries) = 1

\* The positions of a byte in a string.
Positions(s, c) == {i \in 1..Len(s) : s[i] = c}

\* The input has no quotation mark and no backslash: every ';' in it ends a statement.
Unquoted(s) == \A i \in 1..Len(s) : s[i] \notin {"'", "\"", "\\"}

\* C15: when the input is exhausted, the tokenizer has yielded as many statements as the
\* input has terminated statements, whether or not the last line ends with a newline
\* (stated for inputs without quotations, where every ';' is a terminator).
C15_TerminatedStatementsYielded ==
  (pc = "eof" /\ Unquoted(stdin_bytes)) => Len(yielded) = Cardinality(Positions(stdin_bytes, ";"))

\* C16: every statement the tokenizer yields, read from its first byte with the quote and
\* escape state reset, contains no ';' outside a quotation and ends outside any quotation:
\* the ';' that ended it was the first one not quoted.
C16_EndsAtUnquotedSemicolon ==
  \A k \in 1..Len(yielded) :
    LET r == ParseLine(yielded[k], NoQuote, FALSE) IN ~r.second /\ r.quote = NoQuote

\* C17: no statement that is empty or holds only whitespace is passed on to be added to a
\* bucket and executed.
C17_BlankStatementsSkipped ==
  \A k \in 1..Len(added) : \E i \in 1..Len(added[k]) : ~isspace(added[k][i])

\* C18: if a connect fails for any slot while the session pool is constructed, the import
\* aborts at once, before any statement is read or executed, and does nothing afterwards.
C18_ConnectFailureAborts ==
  /\ [][(pc = "construct" /\ \E slot \in Slots : sessions'[slot] = "null") => pc' = "aborted"]_vars
  /\ []((pc = "aborted" /\ window = 0)
          => (pos = 1 /\ commits = <<>> /\ dispatched = {} /\ task_queue = <<>>))
  /\ [][pc # "aborted"]_vars

C18_Witness ==
  /\ pc = "aborted" /\ window = 0 /\ source # <<>>
  /\ sessions[0] = "ready"
  /\ \E slot \in Slots : sessions[slot] = "null"

\* C19: once a reconnect by a worker has failed (a slot is left with a null session), the
\* scheduler dispatches no further round of batches.
C19_RepairFailureStopsDispatch ==
  [][(window > 0 /\ \E slot \in Slots : sessions[slot] = "null")
       => ~(pc = "parallel" /\ pc' = "await")]_vars

\* C20 as stated: the import of an empty input succeeds: it ends with Run returning and
\* with nothing executed.
C20_EmptyInputSucceeds ==
  (source = <<>> /\ Terminated) => (pc = "done" /\ commits = <<>>)

\* C20 amended: once the session pool is constructed, the import of an empty input executes
\* no statement and dispatches no batch, and the one step Run takes is to return.
C20_EmptyInputNoWork ==
  /\ []((source = <<>> /\ pc \notin {"construct", "aborted"})
          => /\ pc \in {"fetch", "done"}
             /\ commits = <<>> /\ dispatched = {} /\ task_queue = <<>>
             /\ \A t \in PoolThreads : threads[t] = Idle)
  /\ [][(source = <<>> /\ pc = "fetch") => pc' = "done"]_vars

C20_Witness == source = <<>> /\ pc = "done" /\ window = 1 /\ workers_number >= 2

\* C21: for every phrase of the recognized-token table and every mix of upper- and
\* lower-case letters that spells it, the classifier is in the phrase's accepting state
\* once it has been given the last byte.
C21_CaseInsensitive ==
  (pc = "classifier" /\ cl_pos > Len(cl_phrase.text)) => clause_state = cl_phrase.accept

\* The serial lists and the batch vectors of the current window have all been run.
PhasesComplete ==
  /\ \A k \in 1..Len(batches.pre_queries) : batches.pre_queries[k].index \in Executed
  /\ AllBatchesExecuted(batches.vertex_batches)
  /\ AllBatchesExecuted(batches.edge_batches)
  /\ \A k \in 1..Len(batches.post_queries) : batches.post_queries[k].index \in Executed

Unfilled == Len(task_queue) + Cardinality({t \in PoolThreads : threads[t].pc = "exec"})

\* C23: every task of a round hands over exactly one token, on success and on failure, and
\* the scheduler takes exactly one token per task of the round: while it waits, the tokens
\* handed over plus the tasks still to fill their promise equal the tokens still to take,
\* and between rounds no token and no task is left.
C23_OneTokenPerTask ==
  pc \notin Dead =>
    IF pc = "await"
    THEN no > 0 /\ Len(ready) + Unfilled = no
    ELSE ready = <<>> /\ Unfilled = 0

\* A round has ended in which one task succeeded and one failed.
C23_Witness ==
  /\ pc = "parallel"
  /\ Len(ParallelBatches) = 2
  /\ ParallelBatches[1].is_executed
  /\ ParallelBatches[2].attempts > 0
  /\ ~ParallelBatches[2].is_executed

\* C24: the statements of the pre list and of the post list run one after the other in
\* arrival order on the session of one slot: the list is in arrival order, at every instant
\* exactly the statements before the loop's position have been executed, and every
\* statement of the list is bound to the slot of the first.
C24_SerialInOrderOnOneSession ==
  pc = "serial" =>
    /\ \A j, k \in 1..Len(SerialQueries) :
         j < k => SerialQueries[j].index < SerialQueries[k].index
    /\ \A k \in 1..Len(SerialQueries) :
         /\ (SerialQueries[k].index \in Executed) <=> (k < serial_i)
         /\ SerialSlot(k) = SerialSlot(1)

\* The first of two statements of a list has completed and the second is about to start.
C24_Witness == pc = "serial" /\ Len(SerialQueries) = 2 /\ serial_i = 2

\* C25: a batch whose is_executed is true is in no task, queued or running, and no step
\* within its window changes any of its fields.
C25_ExecutedIsFinal ==
  /\ [](/\ \A k \in 1..Len(task_queue) : ~ParallelBatches[task_queue[k].batch_i].is_executed
        /\ \A t \in PoolThreads :
             threads[t].pc = "exec" => ~ParallelBatches[threads[t].batch_i].is_executed)
  /\ [][window' = window =>
          /\ \A i \in 1..Len(batches.vertex_batches) :
               batches.vertex_batches[i].is_executed
                 => batches'.vertex_batches[i] = batches.vertex_batches[i]
          /\ \A i \in 1..Len(batches.edge_batches) :
               batches.edge_batches[i].is_executed
                 => batches'.edge_batches[i] = batches.edge_batches[i]]_vars

\* A later round is under way in which the executed first batch was passed over and the
\* second batch, which had failed, was dispatched again.
C25_Witness ==
  /\ pc = "await"
  /\ Len(ParallelBatches) = 2
  /\ ParallelBatches[1].is_executed
  /\ ParallelBatches[2].attempts > 0
  /\ \E t \in PoolThreads : threads[t].pc = "exec" /\ threads[t].batch_i = 2

\* The queries a Batches value holds in each of its four buckets.
BucketContents(bs) ==
  [pre |-> bs.pre_queries,
   vertex |-> Flatten([i \in 1..Len(bs.vertex_batches) |-> bs.vertex_batches[i].queries])
                \o bs.vertices_batch.queries,
   edge |-> Flatten([i \in 1..Len(bs.edge_batches) |-> bs.edge_batches[i].queries])
              \o bs.edges_batch.queries,
   post |-> bs.post_queries]

\* C26: AddQuery puts the query, whatever its flags, into exactly one of the four buckets,
\* once: exactly one bucket changes and it grows by this query at its end; a query with no
\* flag set goes to the post list.
C26_BucketTotal ==
  [][pc = "grouper" =>
       LET c == BucketContents(batches)
           d == BucketContents(batches')
       IN /\ Cardinality({b \in DOMAIN c : d[b] # c[b]}) = 1
          /\ \A b \in DOMAIN c :
               d[b] # c[b] =>
                 /\ Len(d[b]) = Len(c[b]) + 1
                 /\ SubSeq(d[b], 1, Len(c[b])) = c[b]
                 /\ d[b][Len(d[b])].info = cl_info
          /\ cl_info = NoInfo => d.post # c.post]_vars

\* A query with no flag set has been added and is in the post list.
C26_Witness == pc = "grouper" /\ cl_info = NoInfo /\ Len(batches.post_queries) = 1

\* The values the claim lists, one per consecutive failure, repeating.
StatedBackoffs == <<2, 4, 8, 16, 32, 64, 1>>

\* The step is a failed attempt of this batch.
FailedAttempt(b, nb) == nb.attempts = b.attempts + 1

\* C27: every failed attempt doubles the batch's backoff and sets it to 1 when the doubled
\* value exceeds 100, so after n consecutive failures the backoff is the n-th value of
\* 2, 4, 8, 16, 32, 64, 1, 2, ...
C27_BackoffSequence ==
  /\ [](\A b \in AllBatches :
          b.backoff = IF b.attempts = 0 THEN 1
                      ELSE StatedBackoffs[((b.attempts - 1) % Len(StatedBackoffs)) + 1])
  /\ [][window' = window =>
          /\ \A i \in 1..Len(batches.vertex_batches) :
               LET b == batches.vertex_batches[i]
                   nb == batches'.vertex_batches[i]
               IN FailedAttempt(b, nb) =>
                    nb.backoff = IF 2 * b.backoff > 100 THEN 1 ELSE 2 * b.backoff
          /\ \A i \in 1..Len(batches.edge_batches) :
               LET b == batches.edge_batches[i]
                   nb == batches'.edge_batches[i]
               IN FailedAttempt(b, nb) =>
                    nb.backoff = IF 2 * b.backoff > 100 THEN 1 ELSE 2 * b.backoff]_vars

\* A batch has failed eight times in a row: its backoff went through 64 and 1 and is 2 again.
C27_Witness == \E b \in AllBatches : b.attempts = 8 /\ b.backoff = 2 /\ ~b.is_executed

\* C28: while every connect succeeds (no slot holds a null session), no task calls
\* ExecuteBatch on a session that an earlier task left in the bad state.
C28_NoTaskOnBadSession ==
  [][(\A slot \in Slots : sessions[slot] # "null") =>
       \A t \in PoolThreads :
         (threads[t].pc = "exec" /\ threads'[t].pc = "status")
           => sessions[threads[t].thread_i] # "bad"]_vars

Min(a, b) == IF a <= b THEN a ELSE b

\* The positions of the batches of the bucket that are not executed yet.
Unexecuted == {i \in 1..Len(ParallelBatches) : ~ParallelBatches[i].is_executed}

\* The n lowest members of a set of positions.
Lowest(n, U) == {i \in U : Cardinality({j \in U : j < i}) < n}

\* C29: the tasks a round adds are one per batch for exactly the min(W, u) lowest
\* not-yet-executed positions of the bucket, in that order, and they are bound to distinct
\* slots among 0..W-1.
C29_RoundDispatch ==
  [][(pc = "parallel" /\ task_queue' # task_queue) =>
       LET W == ctx.max_concurrent_executions
           n == Min(W, Cardinality(Unexecuted))
           tasks == SubSeq(task_queue', Len(task_queue) + 1, Len(task_queue'))
       IN /\ Len(tasks) = n
          /\ {tasks[k].batch_i : k \in 1..n} = Lowest(n, Unexecuted)
          /\ \A j, k \in 1..n : j < k => tasks[j].batch_i < tasks[k].batch_i
          /\ \A k \in 1..n : tasks[k].thread_i \in 0..(W - 1)
          /\ Cardinality({tasks[k].thread_i : k \in 1..n}) = n]_vars

\* A round has been dispatched that passes over the executed first batch and binds the
\* second batch to slot 0.
C29_Witness ==
  /\ pc = "await"
  /\ ParallelBatches[1].is_executed
  /\ task_queue = <<[thread_i |-> 0, batch_i |-> 2]>>

\* C30: there is no cap on attempts. However often a batch has failed, as long as it is not
\* executed the scheduler leaves its loop head only into a new round, never into the next
\* phase, and that round dispatches the batch again; and a batch is never marked executed
\* without its statements having been committed.
C30_RetriesUncapped ==
  /\ [][(pc = "parallel" /\ pc' # pc /\ Unexecuted # {}) =>
          /\ pc' \in {"await"} \cup Dead
          /\ pc' = "await" =>
               \A i \in Unexecuted : \E k \in 1..Len(task_queue') : task_queue'[k].batch_i = i]_vars
  /\ [](\A b \in Range(batches.vertex_batches) \cup Range(batches.edge_batches) :
          b.is_executed => Range(QueryIndexes(b.queries)) \subseteq Executed)

\* A batch that has failed MaxAttempts times is being run again, and the import has not ended.
C30_Witness ==
  /\ pc = "await"
  /\ \E t \in PoolThreads :
       threads[t].pc = "exec" /\ ParallelBatches[threads[t].batch_i].attempts = MaxAttempts

\* Some branch of the chain compares with this byte in this state.
Continues(c, state) == \E k \in 1..Len(Chain) : c \in Chain[k][1] /\ state \in Chain[k][2]

\* The states between the words of a phrase of more than one word.
InterWord ==
  {"CREATE", "CREATE_", "MATCH", "MATCH_", "MERGE", "MERGE_", "DETACH", "DETACH_",
   "DROP", "DROP_", "P", "P_"}

\* C31: outside a quotation, a byte that continues no phrase from the current state moves
\* the classifier to NONE, unless it is whitespace between the words of a phrase; so
\* whitespace in the middle of a keyword moves it to NONE.
C31_NonMatchingByteResets ==
  [][(pc = "classifier" /\ cl_quote = NoQuote /\ cl_pos <= Len(cl_phrase.text)) =>
       LET c == cl_phrase.text[cl_pos] IN
       (~Continues(c, clause_state) /\ ~(IsWhitespace(c) /\ clause_state \in InterWord))
         => clause_state' = "NONE"]_vars

\* C32: a phrase that is spelled right after an identifier byte, with no word boundary
\* before it, does not bring the classifier into the phrase's accepting state (the state
\* on which the phrase's flag is set).
C32_WordBoundaryNeeded ==
  (pc = "classifier" /\ Len(cl_phrase.text) > 0 /\ cl_phrase.text[1] \in IdentifierBytes)
    => clause_state # cl_phrase.accept

\* The states that stand for a recognized phrase.
Accepting == {ph.accept : ph \in Phrases}

\* C33: whatever the state and the byte, a byte given to the classifier while a quotation
\* is open moves it to NONE; so after a byte inside a quotation the classifier is in no
\* accepting state, and recognition starts afresh after the quotation.
C33_QuotationResets ==
  /\ [][(pc = "classifier" /\ cl_quote # NoQuote) => clause_state' = "NONE"]_vars
  /\ []((pc = "classifier" /\ cl_quote # NoQuote /\ cl_pos > 1) => clause_state \notin Accepting)

\* Inside a quotation the classifier was given an opening parenthesis and is in NONE.
C33_Witness ==
  /\ pc = "classifier"
  /\ cl_quote # NoQuote
  /\ cl_pos = 2
  /\ cl_phrase.text = <<"(">>
  /\ clause_state = "NONE"

\* The bytes of the phrase DETACH DELETE.
DetachDelete == <<"D", "E", "T", "A", "C", "H", " ", "D", "E", "L", "E", "T", "E">>

\* C38: the state DETACH_DELETE is reached only by bytes that spell DETACH DELETE, in
\* either letter case.
C38_OnlyDetachDelete ==
  (pc = "classifier" /\ clause_state = "DETACH_DELETE") =>
    /\ Len(cl_phrase.text) = Len(DetachDelete)
    /\ \A i \in 1..Len(DetachDelete) : ToLower(cl_phrase.text[i]) = ToLower(DetachDelete[i])

\* The line breaks of the input that lie before its first ';'.
BreaksInFirstStatement(s) ==
  {i \in Positions(s, "\n") : \A j \in Positions(s, ";") : i < j}

\* C34: the text yielded for a statement has one newline for every line break inside the
\* statement (stated for the first statement of an input that begins with a letter and has
\* no quotation, so that every line break before the first ';' is inside that statement).
C34_NewlinesPreserved ==
  (pc \in {"reading", "eof"} /\ yielded # <<>> /\ Unquoted(stdin_bytes)
     /\ stdin_bytes[1] = "a") =>
    Cardinality(Positions(yielded[1], "\n")) = Cardinality(BreaksInFirstStatement(stdin_bytes))

\* C35: Run returns only after a fetch that read no statement: a window that holds a
\* statement of any bucket is executed and followed by another fetch.
C35_ReturnsOnlyAfterEmptyFetch == pc = "done" => WindowRead = {}

\* How often a statement index occurs among the executed statements.
TimesExecuted(index) == Cardinality({k \in 1..Len(Flatten(commits)) : Flatten(commits)[k] = index})

\* C36: a pre or post statement is attempted at most once and its failure ends the import:
\* no statement of a list is executed twice; ExecuteSerial is left, other than by the end
\* of the process, only with every statement of its list executed; the statement at which
\* the import aborted was not executed; and no step follows the abort.
C36_SerialFailureAborts ==
  /\ [](\A k \in 1..Len(batches.pre_queries) : TimesExecuted(batches.pre_queries[k].index) <= 1)
  /\ [](\A k \in 1..Len(batches.post_queries) : TimesExecuted(batches.post_queries[k].index) <= 1)
  /\ []((pc = "aborted" /\ window > 0 /\ serial_i <= Len(SerialQueries))
          => SerialQueries[serial_i].index \notin Executed)
  /\ [][(pc = "serial" /\ pc' \notin {"serial"} \cup Dead)
          => \A k \in 1..Len(SerialQueries) : SerialQueries[k].index \in Executed]_vars
  /\ [][pc # "aborted"]_vars

\* The import aborted at the second of two pre statements, with a vertex batch of the
\* window still to run.
C36_Witness ==
  /\ pc = "aborted"
  /\ bucket = "pre"
  /\ Len(batches.pre_queries) = 2
  /\ serial_i = 2
  /\ batches.vertex_batches # <<>>

\* The tasks for the batch at position i that are queued or have not yet filled their
\* promise: the tasks that may still write the batch.
LiveTasks(i) ==
  Cardinality({k \in 1..Len(task_queue) : task_queue[k].batch_i = i})
    + Cardinality({t \in PoolThreads : threads[t].pc = "exec" /\ threads[t].batch_i = i})

Enqueued(k) == next_task > k \/ (next_task = k /\ pc # "add")

\* How many times the task has been run.
TimesRun(k) == Cardinality({i \in DOMAIN ran : ran[i].task = k})

\* C39: in a pool that is not shutting down no task is run before AddTask has queued it
\* and none is run twice, by one thread or by two, and every task AddTask has queued is
\* eventually run.
C39_EveryTaskRunOnce ==
  /\ [](\A k \in 1..MaxTasks : TimesRun(k) <= (IF Enqueued(k) THEN 1 ELSE 0))
  /\ \A k \in 1..MaxTasks : (Enqueued(k) ~> (TimesRun(k) = 1))

\* All the tasks have been run, by two threads between them, one of which was woken from
\* its wait by AddTask, and both threads wait again.
C39_Witness ==
  /\ Len(ran) = MaxTasks
  /\ workers_number = 2
  /\ {ran[i].thread : i \in DOMAIN ran} = {1, 2}
  /\ queue_cv_ = {1, 2}
  /\ task_queue = <<>>


\* How many times the token is in the sequence.
Occurrences(seq, token) == Cardinality({i \in DOMAIN seq : seq[i] = token})

\* Calls of Notify that have not yet put their token into ready_.
BeforeEmplace(token) ==
  Cardinality({t \in DOMAIN threads : threads[t].pc = "emplace" /\ threads[t].task = token})

\* Calls of Await made so far, the one under way included.
AwaitCalls == Len(awaited) + (IF pc = "idle" THEN 0 ELSE 1)

\* C40: every token passed to Notify is, as many times as it was passed, either on its
\* way into ready_, in ready_, or returned by an Await; an Await returns only a token that
\* is in ready_ and takes it out, so it blocks while ready_ is empty; and once k calls of
\* Notify and k calls of Await have been made the k-th Await returns.
C40_TokensConserved ==
  /\ [](\A token \in 1..MaxWorkers :
          Occurrences(awaited, token) + Occurrences(ready, token) + BeforeEmplace(token)
            = Occurrences(notified, token))
  /\ [][Len(awaited') > Len(awaited)
          => /\ ready # <<>>
             /\ awaited' = Append(awaited, ready[Len(ready)])
             /\ ready' = SubSeq(ready, 1, Len(ready) - 1)]_vars
  /\ \A k \in 1..MaxTokens :
       (AwaitCalls >= k /\ Len(notified) >= k) ~> (Len(awaited) >= k)

\* Every token passed to Notify has been returned by an Await, every call of Notify has
\* returned, and one more Await waits on cv_ with no token pending.
C40_Witness ==
  /\ Len(awaited) = MaxTokens
  /\ Len(notified) = MaxTokens
  /\ ready = <<>>
  /\ pc = "cv_wait"
  /\ \A t \in DOMAIN threads : threads[t].pc = "idle"

====
